---- MODULE Spec2Model ----
(***************************************************************************)
(* Verification model of the Clinkers / Carplets mini-app:                 *)
(*   - the two ERC-721 contracts (contracts/Clinkers.sol, Carplets.sol),   *)
(*   - the deterministic trait functions of services/neynarService.ts,     *)
(*   - the ClinkerGeneratorComponent mint pipeline.                        *)
(* Each part has its own specification (SpecContract, SpecPhase, ...);     *)
(* the variables of the other parts stay at their initial value.           *)
(***************************************************************************)
EXTENDS Integers, Sequences, FiniteSets, TLC

VARIABLES
    \* ---- contract storage (Clinkers.sol / Carplets.sol) ----
    kind,            \* which contract is deployed: "Clinkers" or "Carplets"
    totalSupply,     \* uint256 public totalSupply
    otherMinted,     \* number of minted FIDs outside the tracked range FIDs
    fidMinted,       \* mapping(uint256 => bool)
    fidToMinter,     \* mapping(uint256 => address)
    levelOf,         \* mapping(uint256 => uint8)   (Clinkers only)
    upgradePrice,    \* mapping(uint8 => uint256)   (Clinkers only)
    mintFee,         \* uint256 public mintFee
    metadataFrozen,  \* bool public metadataFrozen
    tokenOwner,      \* ERC721 _owners
    tokenURIs,       \* ERC721URIStorage _tokenURIs
    lastCall,        \* the last external call and how it ended
    \* ---- determineClinkerPhase (services/neynarService.ts) ----
    user,            \* the NeynarUser handed to determineClinkerPhase
    phaseResult,     \* the phase determineClinkerPhase returned (0 before the call)
    \* ---- deriveCarpletDesignSpec, accessory selection ----
    traits,          \* string[] traits
    interests,       \* string[] interests
    seed,            \* hashString(seedStr), an unsigned 32-bit value as [hi, lo]
    accessories,     \* spec.accessories ("pending" before the call)
    \* ---- ClinkerGeneratorComponent: React state ----
    mounted,           \* the first commit's effects have run
    status,            \* GenerationStatus
    errorMsg,          \* the error state (setError)
    userFid,           \* 0 is null
    address,           \* useAccount().address; "none" when no wallet is connected
    walletOwnsFid,     \* "null", "true" or "false"
    preparedMintData,  \* "null" or "prepared" ({imageUri, metadataUri} of the attempt)
    generatedImageUrl, \* "null" or "image"
    regenCounter,
    userPhase,
    isFidMinted,       \* data of the isFidMinted contract read: "undefined", "true", "false"
    hasEnoughEth,      \* baseBalanceWei >= mintFeeWei
    mintSuccessData,   \* "null" or "set"
    \* ---- ClinkerGeneratorComponent: asynchronous work in flight ----
    ownTasks,          \* verifyFidOwnership calls in flight: [fid, addr, cancelled]
    genPc,             \* the await handleGenerateClinker is suspended at ("none": not running)
    mintPc,            \* the await handleMintClinker is suspended at ("none": not running)
    mintOutcome,       \* how mintClinker ended, kept across the haptic await
    \* ---- the world and the history of the session ----
    chainMinted,       \* whether the FID is minted on-chain
    verifiedTrue,      \* <<fid, wallet>> pairs verifyFidOwnership has returned true for
    stepsStarted,      \* pipeline steps started so far
    stepsOk,           \* pipeline steps completed successfully so far
    failedAt,          \* the step of the generation attempt that failed ("none" if none)
    mintCall,          \* the last mintClinker call: [fid, wallet, verified, result] or NoMintCall
    ownHistory,        \* [writer, staleDropped]: the <<fid, wallet>> of the call whose
                       \* result walletOwnsFid holds (<<>> for null), and whether, since
                       \* the effect last ran, the result of a call made for another
                       \* pair than the current one has arrived and was dropped
    \* ---- generateClinkerPrompt ----
    promptUser,        \* the NeynarUser (with the picture behind pfp_url) it is called with
    promptResults,     \* what the calls made so far returned, in order
    \* ---- repeated generation for one FID (handleGenerateClinker, lines 200-232) ----
    regenFid,          \* the FID the component generates for
    regenSalt,         \* regenCounter
    regenRuns,         \* one record per generation: the profile fetched, the traits
                       \* derived from it and the request handed to the image model
    \* ---- the pure functions, applied to inputs drawn at the start ----
    hashInput,         \* the char codes of the string handed to hashString
    hashOutput,        \* <<>> before the call, <<hash>> after it
    seedArgs,          \* [fid, salts]: one FID and two salts for computeSeed
    seedHashes,        \* <<>> before the calls, the two seed strings after them
    hslArgs,           \* [s, l]: the saturation and lightness handed to hslToHex
    hslOutput,         \* <<>> before the calls, the hex strings for hues 0, 120, 240
    paletteArgs,       \* [seed, seed2, seed3, phase]: the inputs of the colour palette
    paletteOut,        \* <<>> before the call, <<[hues, indexes]>> after it
    verifyArgs,        \* [fid, wallet, response]: verifyFidOwnership's arguments and
                       \* what the Neynar request of fetchUserByFid comes back with
    verifyResult       \* <<>> before the call, <<outcome>> after it

cvars == <<kind, totalSupply, otherMinted, fidMinted, fidToMinter, levelOf,
           upgradePrice, mintFee, metadataFrozen, tokenOwner, tokenURIs, lastCall>>

pvars == <<user, phaseResult>>

avars == <<traits, interests, seed, accessories>>

uvars == <<mounted, status, errorMsg, userFid, address, walletOwnsFid,
           preparedMintData, generatedImageUrl, regenCounter, userPhase, isFidMinted,
           hasEnoughEth, mintSuccessData, ownTasks, genPc, mintPc, mintOutcome,
           chainMinted, verifiedTrue, stepsStarted, stepsOk, failedAt, mintCall,
           ownHistory>>

gvars == <<promptUser, promptResults>>

rvars == <<regenFid, regenSalt, regenRuns>>

fvars == <<hashInput, hashOutput, seedArgs, seedHashes, hslArgs, hslOutput,
           paletteArgs, paletteOut, verifyArgs, verifyResult>>

vars == <<cvars, pvars, avars, uvars, gvars, rvars, fvars>>

-----------------------------------------------------------------------------
(* Bounds of the contract model *)

\* tracked FIDs are 0..MaxFid (0 is the invalid FID)
MaxFid == 1

FIDs == 0..MaxFid

\* uint8 level arguments tried by callers: 0 and 3 are the lowest and highest valid
\* level, 4 stands for any level > 3
Levels == {0, 3, 4}

\* an absent optional numeric field (JavaScript undefined); real values are >= 0
Absent == -1

ZeroAddr == "0x0"
ContractOwner == "owner"
Addresses == {"owner", "alice"}

URIs == {"ipfs://a", "ipfs://b"}

(* Program constants. Amounts of wei are counted in units of 0.0001 ether. *)
MAX_SUPPLY == 10000
ClinkersInitialMintFee == 4
CarpletsInitialMintFee == 50000

\* the deployed contract's initial mintFee
InitialMintFee ==
    IF kind = "Clinkers" THEN ClinkersInitialMintFee ELSE CarpletsInitialMintFee

\* msg.value / fee amounts tried by callers: nothing, or the initial fee
Values == {0, InitialMintFee}

\* upgrade prices the owner may configure, and the levels it configures them for
Prices == {0, 1}
PricedLevels == {3, 4}

\* the last external call: its arguments, msg.value and how it ended; of upgradeNft
\* the level, the value and msg.sender are recorded when the call succeeded
NoCall ==
    [fn |-> "none", fid |-> 0, value |-> 0, level |-> 0, sender |-> "any", err |-> "ok"]

Call(fn, fid, value, level, err) ==
    [fn |-> fn, fid |-> fid, value |-> value, level |-> level, sender |-> "any",
     err |-> err]

\* number of FIDs (tracked or not) for which fidMinted is true
MintedCount == otherMinted + Cardinality({f \in FIDs : fidMinted[f]})

-----------------------------------------------------------------------------
(* ERC721 library behaviour used by mint *)

\* _safeMint(to, tokenId): "ok" or the library's revert reason
SafeMintResult(to, fid) ==
    IF to = ZeroAddr THEN "ERC721InvalidReceiver"
    ELSE IF tokenOwner[fid] # ZeroAddr THEN "ERC721InvalidSender"
    ELSE "ok"

-----------------------------------------------------------------------------
(* Clinkers.mint: the revert checks, in source order *)

ClinkersMintResult_NoDupCheck(fid, initialLevel, value, sender) ==
    IF initialLevel > 3 THEN "LevelNotAllowed"
    ELSE IF value # mintFee THEN "IncorrectFee"
    ELSE IF totalSupply >= MAX_SUPPLY THEN "MaxSupplyExceeded"
    ELSE IF fid = 0 THEN "InvalidFid"
    ELSE IF metadataFrozen THEN "MetadataFrozen"
    ELSE SafeMintResult(sender, fid)

ClinkersMintResult_FeeAtMost(fid, initialLevel, value, sender) ==
    IF initialLevel > 3 THEN "LevelNotAllowed"
    ELSE IF value < mintFee THEN "IncorrectFee"
    ELSE IF totalSupply >= MAX_SUPPLY THEN "MaxSupplyExceeded"
    ELSE IF fid = 0 THEN "InvalidFid"
    ELSE IF fidMinted[fid] THEN "FidAlreadyMinted"
    ELSE IF metadataFrozen THEN "MetadataFrozen"
    ELSE SafeMintResult(sender, fid)

ClinkersMintResult_OffByOneCap(fid, initialLevel, value, sender) ==
    IF initialLevel > 3 THEN "LevelNotAllowed"
    ELSE IF value # mintFee THEN "IncorrectFee"
    ELSE IF totalSupply > MAX_SUPPLY THEN "MaxSupplyExceeded"
    ELSE IF fid = 0 THEN "InvalidFid"
    ELSE IF fidMinted[fid] THEN "FidAlreadyMinted"
    ELSE IF metadataFrozen THEN "MetadataFrozen"
    ELSE SafeMintResult(sender, fid)

ClinkersMintResult(fid, initialLevel, value, sender) ==
    IF initialLevel > 3 THEN "LevelNotAllowed"
    ELSE IF value # mintFee THEN "IncorrectFee"
    ELSE IF totalSupply >= MAX_SUPPLY THEN "MaxSupplyExceeded"
    ELSE IF fid = 0 THEN "InvalidFid"
    ELSE IF fidMinted[fid] THEN "FidAlreadyMinted"
    ELSE IF metadataFrozen THEN "MetadataFrozen"
    ELSE SafeMintResult(sender, fid)

(* Carplets.mint: the revert checks, in source order *)
CarpletsMintResult_NoFreezeCheck(fid, value, sender) ==
    IF value # mintFee THEN "IncorrectFee"
    ELSE IF totalSupply >= MAX_SUPPLY THEN "MaxSupplyExceeded"
    ELSE IF fid = 0 THEN "InvalidFid"
    ELSE IF fidMinted[fid] THEN "FidAlreadyMinted"
    ELSE SafeMintResult(sender, fid)

CarpletsMintResult(fid, value, sender) ==
    IF value # mintFee THEN "IncorrectFee"
    ELSE IF totalSupply >= MAX_SUPPLY THEN "MaxSupplyExceeded"
    ELSE IF fid = 0 THEN "InvalidFid"
    ELSE IF fidMinted[fid] THEN "FidAlreadyMinted"
    ELSE IF metadataFrozen THEN "MetadataFrozen"
    ELSE SafeMintResult(sender, fid)

\* the storage writes of a successful mint (both contracts; Carplets has no level)
MintEffects(fid, uri, level, sender) ==
    /\ fidMinted' = [fidMinted EXCEPT ![fid] = TRUE]
    /\ fidToMinter' = [fidToMinter EXCEPT ![fid] = sender]
    /\ levelOf' = [levelOf EXCEPT ![fid] = level]
    /\ totalSupply' = totalSupply + 1
    /\ tokenOwner' = [tokenOwner EXCEPT ![fid] = sender]
    /\ tokenURIs' = [tokenURIs EXCEPT ![fid] = uri]

Storage == <<totalSupply, otherMinted, fidMinted, fidToMinter, levelOf, upgradePrice,
             mintFee, metadataFrozen, tokenOwner, tokenURIs>>

ClinkersMint ==
    /\ kind = "Clinkers"
    /\ \E fid \in FIDs, uri \in URIs, lvl \in Levels, v \in Values, s \in Addresses :
         LET r == ClinkersMintResult(fid, lvl, v, s) IN
         /\ lastCall' = Call("mint", fid, v, lvl, r)
         /\ UNCHANGED <<pvars, avars, uvars, gvars, rvars, fvars>>
         /\ IF r = "ok"
            THEN /\ MintEffects(fid, uri, lvl, s)
                 /\ UNCHANGED <<kind, otherMinted, upgradePrice, mintFee, metadataFrozen>>
            ELSE UNCHANGED <<kind, Storage>>

CarpletsMint ==
    /\ kind = "Carplets"
    /\ \E fid \in FIDs, uri \in URIs, v \in Values, s \in Addresses :
         LET r == CarpletsMintResult(fid, v, s) IN
         /\ lastCall' = Call("mint", fid, v, 0, r)
         /\ UNCHANGED <<pvars, avars, uvars, gvars, rvars, fvars>>
         /\ IF r = "ok"
            THEN /\ MintEffects(fid, uri, 0, s)
                 /\ UNCHANGED <<kind, otherMinted, upgradePrice, mintFee, metadataFrozen>>
            ELSE UNCHANGED <<kind, Storage>>

(* Clinkers.upgradeNft *)
UpgradeResult_NoLevelOrder(fid, newLevel, value, sender) ==
    IF metadataFrozen THEN "MetadataFrozen"
    ELSE IF ~fidMinted[fid] THEN "InvalidFid"
    ELSE IF tokenOwner[fid] # sender THEN "NotTokenOwner"
    ELSE IF newLevel > 3 THEN "LevelNotAllowed"
    ELSE IF value # upgradePrice[newLevel] THEN "IncorrectFee"
    ELSE "ok"

UpgradeResult(fid, newLevel, value, sender) ==
    IF metadataFrozen THEN "MetadataFrozen"
    ELSE IF ~fidMinted[fid] THEN "InvalidFid"
    ELSE IF tokenOwner[fid] # sender THEN "NotTokenOwner"
    ELSE IF newLevel <= levelOf[fid] THEN "LevelNotAllowed"
    ELSE IF newLevel > 3 THEN "LevelNotAllowed"
    ELSE IF value # upgradePrice[newLevel] THEN "IncorrectFee"
    ELSE "ok"

UpgradeNft ==
    /\ kind = "Clinkers"
    /\ \E fid \in FIDs, uri \in URIs, lvl \in Levels, v \in Prices, s \in Addresses :
         LET r == UpgradeResult(fid, lvl, v, s) IN
         /\ lastCall' = IF r = "ok"
                        THEN [Call("upgradeNft", fid, v, lvl, r) EXCEPT !.sender = s]
                        ELSE Call("upgradeNft", fid, 0, 0, r)
         /\ UNCHANGED <<pvars, avars, uvars, gvars, rvars, fvars>>
         /\ IF r = "ok"
            THEN /\ levelOf' = [levelOf EXCEPT ![fid] = lvl]
                 /\ tokenURIs' = [tokenURIs EXCEPT ![fid] = uri]
                 /\ UNCHANGED <<kind, totalSupply, otherMinted, fidMinted, fidToMinter,
                                upgradePrice, mintFee, metadataFrozen, tokenOwner>>
            ELSE UNCHANGED <<kind, Storage>>

(* Ownable.onlyOwner *)
OnlyOwnerResult(sender) ==
    IF sender = ContractOwner THEN "ok" ELSE "OwnableUnauthorizedAccount"

(* Clinkers.setUpgradePrice *)
SetUpgradePrice ==
    /\ kind = "Clinkers"
    /\ \E lvl \in PricedLevels, p \in Prices, s \in Addresses :
         LET r == IF OnlyOwnerResult(s) # "ok" THEN OnlyOwnerResult(s)
                  ELSE IF lvl > 3 THEN "LEVEL_OUT_OF_RANGE" ELSE "ok" IN
         /\ lastCall' = Call("setUpgradePrice", 0, 0, 0, r)
         /\ UNCHANGED <<pvars, avars, uvars, gvars, rvars, fvars>>
         /\ IF r = "ok"
            THEN /\ upgradePrice' = [upgradePrice EXCEPT ![lvl] = p]
                 /\ UNCHANGED <<kind, totalSupply, otherMinted, fidMinted, fidToMinter,
                                levelOf, mintFee, metadataFrozen, tokenOwner, tokenURIs>>
            ELSE UNCHANGED <<kind, Storage>>

(* setMintFee (both contracts) *)
SetMintFee ==
    \E newFee \in Values, s \in Addresses :
       LET r == OnlyOwnerResult(s) IN
       /\ lastCall' = Call("setMintFee", 0, 0, 0, r)
       /\ UNCHANGED <<pvars, avars, uvars, gvars, rvars, fvars>>
       /\ IF r = "ok"
          THEN /\ mintFee' = newFee
               /\ UNCHANGED <<kind, totalSupply, otherMinted, fidMinted, fidToMinter,
                              levelOf, upgradePrice, metadataFrozen, tokenOwner, tokenURIs>>
          ELSE UNCHANGED <<kind, Storage>>

(* freezeMetadata (both contracts) *)
FreezeMetadata ==
    \E s \in Addresses :
       LET r == OnlyOwnerResult(s) IN
       /\ lastCall' = Call("freezeMetadata", 0, 0, 0, r)
       /\ UNCHANGED <<pvars, avars, uvars, gvars, rvars, fvars>>
       /\ IF r = "ok"
          THEN /\ metadataFrozen' = TRUE
               /\ UNCHANGED <<kind, totalSupply, otherMinted, fidMinted, fidToMinter,
                              levelOf, upgradePrice, mintFee, tokenOwner, tokenURIs>>
          ELSE UNCHANGED <<kind, Storage>>

(* ERC721.transferFrom called by the token's holder *)
TransferFrom ==
    \E fid \in FIDs, to \in Addresses :
       /\ tokenOwner[fid] # ZeroAddr
       /\ tokenOwner[fid] # to
       /\ tokenOwner' = [tokenOwner EXCEPT ![fid] = to]
       /\ lastCall' = Call("transferFrom", fid, 0, 0, "ok")
       /\ UNCHANGED <<pvars, avars, uvars, gvars, rvars, fvars>>
       /\ UNCHANGED <<kind, totalSupply, otherMinted, fidMinted, fidToMinter, levelOf,
                      upgradePrice, mintFee, metadataFrozen, tokenURIs>>

\* The state right after construction, or after MAX_SUPPLY - 1 or MAX_SUPPLY
\* successful mints of FIDs outside the tracked range (no other call made).
InitContract ==
    /\ kind \in {"Clinkers", "Carplets"}
    /\ otherMinted \in {0, MAX_SUPPLY - 1, MAX_SUPPLY}
    /\ totalSupply = otherMinted
    /\ fidMinted = [f \in FIDs |-> FALSE]
    /\ fidToMinter = [f \in FIDs |-> ZeroAddr]
    /\ levelOf = [f \in FIDs |-> 0]
    /\ upgradePrice = [l \in 0..3 |-> 0]
    /\ mintFee = InitialMintFee
    /\ metadataFrozen = FALSE
    /\ tokenOwner = [f \in FIDs |-> ZeroAddr]
    /\ tokenURIs = [f \in FIDs |-> ""]
    /\ lastCall = NoCall

NextContract ==
    \/ ClinkersMint
    \/ CarpletsMint
    \/ UpgradeNft
    \/ SetUpgradePrice
    \/ SetMintFee
    \/ FreezeMetadata
    \/ TransferFrom

\* the parts of the state that belong to the other specifications
ContractIdle ==
    /\ kind = "Clinkers"
    /\ otherMinted = 0
    /\ totalSupply = 0
    /\ fidMinted = [f \in FIDs |-> FALSE]
    /\ fidToMinter = [f \in FIDs |-> ZeroAddr]
    /\ levelOf = [f \in FIDs |-> 0]
    /\ upgradePrice = [l \in 0..3 |-> 0]
    /\ mintFee = ClinkersInitialMintFee
    /\ metadataFrozen = FALSE
    /\ tokenOwner = [f \in FIDs |-> ZeroAddr]
    /\ tokenURIs = [f \in FIDs |-> ""]
    /\ lastCall = NoCall

PhaseIdle ==
    /\ user = [score |-> Absent, experimental |-> Absent, follower_count |-> 0]
    /\ phaseResult = 0

AccessoriesIdle ==
    /\ traits = {}
    /\ interests = {}
    /\ seed = [hi |-> 0, lo |-> 0]
    /\ accessories = "pending"

NoOwnHistory == [writer |-> <<>>, staleDropped |-> FALSE]

NoMintCall == [fid |-> 0, wallet |-> "none", verified |-> FALSE, result |-> "none"]

ComponentIdle ==
    /\ mounted = FALSE
    /\ status = "idle"
    /\ errorMsg = "null"
    /\ userFid = 0
    /\ address = "none"
    /\ walletOwnsFid = "null"
    /\ preparedMintData = "null"
    /\ generatedImageUrl = "null"
    /\ regenCounter = 0
    /\ userPhase = 1
    /\ isFidMinted = "undefined"
    /\ hasEnoughEth = FALSE
    /\ mintSuccessData = "null"
    /\ ownTasks = {}
    /\ genPc = "none"
    /\ mintPc = "none"
    /\ mintOutcome = "none"
    /\ chainMinted = FALSE
    /\ verifiedTrue = {}
    /\ stepsStarted = {}
    /\ stepsOk = {}
    /\ failedAt = "none"
    /\ mintCall = NoMintCall
    /\ ownHistory = NoOwnHistory

PromptIdle ==
    /\ promptUser = [fid |-> 0, username |-> "", display_name |-> "",
                     follower_count |-> 0, score |-> Absent, experimental |-> Absent,
                     pfp_url |-> "", pfp |-> [loads |-> FALSE, pixels |-> <<>>]]
    /\ promptResults = <<>>

RegenIdle ==
    /\ regenFid = 0
    /\ regenSalt = 0
    /\ regenRuns = <<>>

\* the palette and the ownership check have not been called
PaletteIdle ==
    /\ paletteArgs = [seed |-> [hi |-> 0, lo |-> 0], seed2 |-> [hi |-> 0, lo |-> 0],
                      seed3 |-> [hi |-> 0, lo |-> 0], phase |-> 1]
    /\ paletteOut = <<>>

VerifyIdle ==
    /\ verifyArgs = [fid |-> 0, wallet |-> <<>>, response |-> [kind |-> "throws"]]
    /\ verifyResult = <<>>

FunctionsIdle ==
    /\ hashInput = <<>>
    /\ hashOutput = <<>>
    /\ seedArgs = [fid |-> 0, salts |-> <<0, 0>>]
    /\ seedHashes = <<>>
    /\ hslArgs = [s |-> 0, l |-> 0]
    /\ hslOutput = <<>>
    /\ PaletteIdle
    /\ VerifyIdle

\* the contract is deployed; nothing else of the app runs
ContractStart ==
    /\ InitContract /\ PhaseIdle /\ AccessoriesIdle /\ ComponentIdle /\ PromptIdle
    /\ RegenIdle /\ FunctionsIdle

SpecContract == ContractStart /\ [][NextContract]_vars

-----------------------------------------------------------------------------
(* Properties of the contracts *)

\* the step is a mint call (successful or reverted) recorded in lastCall'
MintStep == lastCall'.fn = "mint"

\* once fidMinted[f] is true it stays true, and a mint succeeds only for a FID
\* that was not minted before the call
MintedAtMostOnce ==
    /\ \A f \in FIDs : fidMinted[f] => fidMinted'[f]
    /\ (MintStep /\ lastCall'.err = "ok") =>
           /\ ~fidMinted[lastCall'.fid]
           /\ fidMinted'[lastCall'.fid]
           /\ totalSupply' = totalSupply + 1

\* C1 as claimed: each FID is minted at most once, and a mint of an already minted
\* FID sent with the correct fee reverts with FidAlreadyMinted and changes no storage.
C1_AsClaimed ==
    [][ /\ MintedAtMostOnce
        /\ (MintStep /\ lastCall'.value = mintFee /\ fidMinted[lastCall'.fid]) =>
               /\ lastCall'.err = "FidAlreadyMinted"
               /\ UNCHANGED Storage ]_vars

\* C1 amended: each FID is minted at most once, and a mint of an already minted FID
\* sent with the correct fee reverts and changes no storage (fidMinted, fidToMinter,
\* totalSupply, token ownership, token URI); the revert is FidAlreadyMinted when
\* totalSupply < MAX_SUPPLY and (Clinkers) initialLevel <= 3, and otherwise
\* LevelNotAllowed (level > 3) or MaxSupplyExceeded, which are checked first.
C1_OneNftPerFid ==
    [][ /\ MintedAtMostOnce
        /\ (MintStep /\ lastCall'.value = mintFee /\ fidMinted[lastCall'.fid]) =>
               /\ UNCHANGED Storage
               /\ lastCall'.err =
                     IF lastCall'.level > 3 THEN "LevelNotAllowed"
                     ELSE IF totalSupply >= MAX_SUPPLY THEN "MaxSupplyExceeded"
                     ELSE "FidAlreadyMinted" ]_vars

\* C1 witness: a mint of an already minted FID with the right fee was rejected
\* with FidAlreadyMinted
C1_Witness ==
    /\ lastCall.fn = "mint"
    /\ lastCall.err = "FidAlreadyMinted"
    /\ lastCall.value = mintFee
    /\ fidMinted[lastCall.fid]
    /\ tokenOwner[lastCall.fid] # fidToMinter[lastCall.fid]

\* C5 as claimed: a mint whose value differs from mintFee reverts with IncorrectFee
\* and changes no storage.
C5_AsClaimed ==
    [][ (MintStep /\ lastCall'.value # mintFee) =>
            /\ lastCall'.err = "IncorrectFee"
            /\ UNCHANGED Storage ]_vars

\* C5 amended: a mint whose value differs from the current mintFee (lower or higher)
\* reverts and changes no storage; the revert is IncorrectFee, except that Clinkers
\* checks initialLevel first and reverts with LevelNotAllowed when initialLevel > 3.
C5_ExactFee ==
    [][ (MintStep /\ lastCall'.value # mintFee) =>
            /\ UNCHANGED Storage
            /\ lastCall'.err =
                  IF kind = "Clinkers" /\ lastCall'.level > 3 THEN "LevelNotAllowed"
                  ELSE "IncorrectFee" ]_vars

\* C5 witness: after setMintFee changed the fee, a mint paying more than the fee
\* for a fresh FID was rejected with IncorrectFee
C5_Witness ==
    /\ lastCall.fn = "mint"
    /\ lastCall.err = "IncorrectFee"
    /\ mintFee # InitialMintFee
    /\ lastCall.value > mintFee
    /\ lastCall.fid # 0
    /\ ~fidMinted[lastCall.fid]

\* totalSupply never exceeds MAX_SUPPLY and counts the minted FIDs
SupplyInvariant ==
    /\ totalSupply <= MAX_SUPPLY
    /\ totalSupply = MintedCount

\* C6 as claimed: totalSupply <= MAX_SUPPLY, totalSupply is the number of minted
\* FIDs, and a mint attempted at totalSupply = MAX_SUPPLY reverts with
\* MaxSupplyExceeded.
C6_AsClaimed ==
    /\ []SupplyInvariant
    /\ [][ (MintStep /\ totalSupply = MAX_SUPPLY) =>
               lastCall'.err = "MaxSupplyExceeded" ]_vars

\* C6 amended: totalSupply <= MAX_SUPPLY, totalSupply is the number of minted FIDs,
\* and a mint attempted at totalSupply = MAX_SUPPLY reverts and changes no storage;
\* the revert is MaxSupplyExceeded when the value equals mintFee and (Clinkers)
\* initialLevel <= 3, and otherwise LevelNotAllowed or IncorrectFee, which are
\* checked first.
C6_MaxSupply ==
    /\ []SupplyInvariant
    /\ [][ (MintStep /\ totalSupply = MAX_SUPPLY) =>
               /\ UNCHANGED Storage
               /\ lastCall'.err =
                     IF lastCall'.level > 3 THEN "LevelNotAllowed"
                     ELSE IF lastCall'.value # mintFee THEN "IncorrectFee"
                     ELSE "MaxSupplyExceeded" ]_vars

\* C6 witness: the supply is exhausted and a correctly paid mint of a FID that was
\* never minted was rejected with MaxSupplyExceeded
C6_Witness ==
    /\ totalSupply = MAX_SUPPLY
    /\ lastCall.fn = "mint"
    /\ lastCall.err = "MaxSupplyExceeded"
    /\ lastCall.fid # 0
    /\ ~fidMinted[lastCall.fid]

\* the step is an upgradeNft call (successful or reverted) recorded in lastCall'
UpgradeStep == lastCall'.fn = "upgradeNft"

\* C25: in the Clinkers contract every level is in 0..3 and never decreases: mint
\* succeeds only with initialLevel <= 3, upgradeNft succeeds only for a target level
\* above the current level and at most 3, called by the token's current owner with
\* value exactly upgradePrice[newLevel], and then stores that level; a rejected
\* upgradeNft leaves levelOf and the token URIs unchanged.
C25_LevelsOnlyRise ==
    /\ [](kind = "Clinkers" => \A f \in FIDs : levelOf[f] \in 0..3)
    /\ [][ kind = "Clinkers" =>
             /\ \A f \in FIDs : levelOf'[f] >= levelOf[f]
             /\ (MintStep /\ lastCall'.err = "ok") =>
                    /\ lastCall'.level <= 3
                    /\ levelOf'[lastCall'.fid] = lastCall'.level
             /\ (UpgradeStep /\ lastCall'.err = "ok") =>
                    /\ lastCall'.level > levelOf[lastCall'.fid]
                    /\ lastCall'.level <= 3
                    /\ lastCall'.sender = tokenOwner[lastCall'.fid]
                    /\ lastCall'.value = upgradePrice[lastCall'.level]
                    /\ levelOf'[lastCall'.fid] = lastCall'.level
             /\ (UpgradeStep /\ lastCall'.err # "ok") =>
                    UNCHANGED <<levelOf, tokenURIs>> ]_vars

\* C25 witness: a token minted by one account and transferred to another was
\* upgraded to level 3 by its new owner for a price the owner had configured, and
\* its URI was replaced
C25_Witness ==
    /\ lastCall.fn = "upgradeNft"
    /\ lastCall.err = "ok"
    /\ lastCall.level = 3
    /\ lastCall.value = 1
    /\ upgradePrice[3] = 1
    /\ levelOf[lastCall.fid] = 3
    /\ tokenOwner[lastCall.fid] = lastCall.sender
    /\ fidToMinter[lastCall.fid] # lastCall.sender

\* C26: the metadata freeze is permanent: once metadataFrozen is true it stays
\* true, every later mint and upgradeNft call reverts, and no token URI, level or
\* totalSupply changes afterwards (Clinkers and Carplets).
C26_FreezeIsPermanent ==
    [][ metadataFrozen =>
            /\ metadataFrozen'
            /\ (MintStep \/ UpgradeStep) => lastCall'.err # "ok"
            /\ UNCHANGED <<tokenURIs, levelOf, totalSupply, fidMinted>> ]_vars

\* C26 witness: after the freeze a mint of a fresh FID with the right fee, below
\* the supply cap, was rejected with MetadataFrozen in the Carplets contract
C26_Witness ==
    /\ kind = "Carplets"
    /\ metadataFrozen
    /\ lastCall.fn = "mint"
    /\ lastCall.err = "MetadataFrozen"
    /\ lastCall.value = mintFee
    /\ ~fidMinted[lastCall.fid]
    /\ totalSupply < MAX_SUPPLY

-----------------------------------------------------------------------------
(* determineClinkerPhase.  Scores are counted in hundredths (0.9 is 90). *)

\* user.score ?? user.experimental?.neynar_user_score ?? 0
ScoreOf(u) ==
    IF u.score # Absent THEN u.score
    ELSE IF u.experimental # Absent THEN u.experimental
    ELSE 0

determineClinkerPhase_LowestFirst(u) ==
    LET score == ScoreOf(u)
        followers == u.follower_count
    IN  IF score >= 40 /\ followers > 100 THEN 2
        ELSE IF score >= 70 /\ followers > 1000 THEN 3
        ELSE IF score >= 90 /\ followers > 5000 THEN 4
        ELSE 1

determineClinkerPhase(u) ==
    LET score == ScoreOf(u)
        followers == u.follower_count
    IN  IF score >= 90 /\ followers > 5000 THEN 4
        ELSE IF score >= 70 /\ followers > 1000 THEN 3
        ELSE IF score >= 40 /\ followers > 100 THEN 2
        ELSE 1

\* profiles tried: scores and follower counts on both sides of every threshold
Scores == {Absent, 0, 39, 40, 69, 70, 89, 90, 95, 100}
ExperimentalScores == {Absent, 0, 45, 95}
FollowerCounts == {0, 100, 101, 1000, 1001, 5000, 5001, 6000}

Profiles ==
    [score : Scores, experimental : ExperimentalScores, follower_count : FollowerCounts]

InitPhase ==
    /\ user \in Profiles
    /\ phaseResult = 0

DeterminePhase ==
    /\ phaseResult = 0
    /\ phaseResult' = determineClinkerPhase(user)
    /\ UNCHANGED <<cvars, avars, uvars, gvars, rvars, fvars>>
    /\ UNCHANGED user

PhaseStart ==
    /\ InitPhase /\ ContractIdle /\ AccessoriesIdle /\ ComponentIdle /\ PromptIdle
    /\ RegenIdle /\ FunctionsIdle

NextPhase == DeterminePhase

SpecPhase == PhaseStart /\ [][NextPhase]_vars

\* the tiers above the lowest whose (minimum score, minimum followers) pair the
\* profile satisfies
QualifiedTiers(u) ==
    {t \in 2..4 :
        \/ t = 4 /\ ScoreOf(u) >= 90 /\ u.follower_count > 5000
        \/ t = 3 /\ ScoreOf(u) >= 70 /\ u.follower_count > 1000
        \/ t = 2 /\ ScoreOf(u) >= 40 /\ u.follower_count > 100}

SetMax(S) == CHOOSE x \in S : \A y \in S : y <= x

\* C8: determineClinkerPhase returns the highest tier the profile qualifies for, tier 1
\* when it qualifies for none, tier 4 for score 0.95 with 6000 followers, tier 1 for
\* score 0 with 0 followers, and always a tier in 1..4.
C8_ClassifyTier ==
    phaseResult # 0 =>
        /\ phaseResult \in 1..4
        /\ phaseResult = SetMax(QualifiedTiers(user) \cup {1})
        /\ (user.score = 95 /\ user.follower_count = 6000) => phaseResult = 4
        /\ (user.score = 0 /\ user.follower_count = 0) => phaseResult = 1

\* C8 witness: a profile that qualifies for tiers 2, 3 and 4 at once was classified
C8_Witness ==
    /\ phaseResult = 4
    /\ QualifiedTiers(user) = {2, 3, 4}
    /\ user.score = 95
    /\ user.follower_count = 6000

-----------------------------------------------------------------------------
(* deriveCarpletDesignSpec: the accessory pool and the 2-4 accessory selection *)

TwoTo16 == 65536

\* ToInt32 of an unsigned 32-bit value [hi, lo]: what JavaScript's >> operates on
ToInt32(h) == (IF h.hi >= 32768 THEN h.hi - TwoTo16 ELSE h.hi) * TwoTo16 + h.lo

RECURSIVE Pow2(_)
Pow2(n) == IF n = 0 THEN 1 ELSE 2 * Pow2(n - 1)

\* a >> k for a 32-bit signed a (arithmetic shift; the shift count is taken mod 32)
Sar(a, k) == a \div Pow2(k % 32)

\* a % n as JavaScript computes it: the result has the sign of the dividend
JsRem(a, n) == IF a >= 0 THEN a % n ELSE -((-a) % n)

\* Set.add: insertion order, no duplicates
SetAdd(pool, x) ==
    IF \E i \in 1..Len(pool) : pool[i] = x THEN pool ELSE Append(pool, x)

RECURSIVE SetAddAll(_, _)
SetAddAll(pool, xs) ==
    IF xs = <<>> THEN pool ELSE SetAddAll(SetAdd(pool, Head(xs)), Tail(xs))

Includes(arr, x) == x \in arr

\* Array.from(pool) after the pool.add calls of lines 190-220
AccessoryPool(tr, ints) ==
    LET p1 == IF Includes(tr, "Builder") \/ Includes(tr, "Technical")
                 \/ Includes(tr, "Project Creator")
              THEN SetAddAll(<<>>, <<"tech goggles", "tiny antenna",
                                     "holographic code symbols">>)
              ELSE <<>>
        p2 == IF Includes(tr, "Influential") \/ Includes(tr, "Thought Leader")
              THEN SetAddAll(p1, <<"mini crown", "leadership aura">>) ELSE p1
        p3 == IF Includes(tr, "DeFi Trader") \/ Includes(ints, "Trading")
              THEN SetAddAll(p2, <<"trading glasses", "mini chart charm">>) ELSE p2
        p4 == IF Includes(tr, "Creative") \/ Includes(tr, "Artistic")
              THEN SetAddAll(p3, <<"paintbrush", "color splatter accents">>) ELSE p3
        p5 == IF Includes(tr, "NFT Enthusiast")
              THEN SetAdd(p4, "collectible gem pin") ELSE p4
        p6 == IF Includes(tr, "Power User") \/ Includes(tr, "Farcaster OG")
              THEN SetAdd(p5, "OG badge") ELSE p5
    IN  SetAddAll(p6, <<"Base pendant", "leaf sprout">>)

\* accessories[j] for a JavaScript index j (0-based); out of range reads undefined
ArrayAt(arr, j) == IF j >= 0 /\ j < Len(arr) THEN arr[j + 1] ELSE "undefined"

\* the for loop of lines 225-228, from index i on
RECURSIVE SelectLoop(_, _, _, _)
SelectLoop(sd, pool, i, selected) ==
    IF i < Len(pool) /\ Len(selected) < 4
    THEN LET bit == Sar(ToInt32(sd), i % 16) % 2
         IN  SelectLoop(sd, pool, i + 1,
                        IF bit # 0 THEN Append(selected, ArrayAt(pool, i)) ELSE selected)
    ELSE selected

\* lines 229-231: the fallback push
Fallback(sd, pool, selected) ==
    IF Len(selected) < 2 /\ Len(pool) > 0
    THEN Append(selected, ArrayAt(pool, JsRem(Sar(ToInt32(sd), 5), Len(pool))))
    ELSE selected

\* selected.slice(0, 4)
Slice4(arr) == SubSeq(arr, 1, IF Len(arr) < 4 THEN Len(arr) ELSE 4)

SelectAccessories(sd, tr, ints) ==
    LET pool == AccessoryPool(tr, ints)
    IN  Slice4(Fallback(sd, pool, SelectLoop(sd, pool, 0, <<>>)))

\* the low half of the seed ranges over SeedLoBits bits; the high half over its
\* extreme values, so that seeds below and above 2^31 are tried
SeedLoBits == 6
SeedLos == 0..(Pow2(SeedLoBits) - 1)
SeedHis == {0, 32768, 65535}

\* one trait per branch of the pool construction
TraitNames == {"Builder", "Influential", "DeFi Trader", "Creative", "NFT Enthusiast",
               "Power User"}
InterestNames == {"Trading"}

InitAccessories ==
    /\ traits \in SUBSET TraitNames
    /\ interests \in SUBSET InterestNames
    /\ seed \in [hi : SeedHis, lo : SeedLos]
    /\ accessories = "pending"

DeriveCarpletDesignSpec ==
    /\ accessories = "pending"
    /\ accessories' = SelectAccessories(seed, traits, interests)
    /\ UNCHANGED <<cvars, pvars, uvars, gvars, rvars, fvars>>
    /\ UNCHANGED <<traits, interests, seed>>

AccessoriesStart ==
    /\ InitAccessories /\ ContractIdle /\ PhaseIdle /\ ComponentIdle /\ PromptIdle
    /\ RegenIdle /\ FunctionsIdle

NextAccessories == DeriveCarpletDesignSpec

SpecAccessories == AccessoriesStart /\ [][NextAccessories]_vars

\* C9: the accessory selection returns between 2 and 4 accessories for every seed and
\* every candidate pool
C9_AccessoryCount ==
    accessories # "pending" => (Len(accessories) >= 2 /\ Len(accessories) <= 4)

\* C10: the returned accessory list never holds the same accessory twice
C10_NoDuplicates ==
    accessories # "pending" =>
        \A i, j \in 1..Len(accessories) : i # j => accessories[i] # accessories[j]

-----------------------------------------------------------------------------
(* ClinkerGeneratorComponent: state, effects and handlers *)

TEST_FID == 239396

\* the FID farcasterContext.fid delivers in production
FarcasterFid == 3

\* wallet "A" is an address of the FID's profile (custody or verified), "B" is not
Wallets == {"A", "B"}
Owns(fid, addr) == addr = "A"

\* profiles fetchUserByFid may return (the phase stored by setUserPhase comes from them)
FetchedProfiles ==
    {[score |-> 0, experimental |-> Absent, follower_count |-> 0],
     [score |-> 95, experimental |-> Absent, follower_count |-> 6000]}

\* the pipeline of one mint attempt, in the documented order
PipelineOrder ==
    <<"verify-ownership", "fetch-profile", "generate-image", "upload-image",
      "upload-metadata", "mint">>

StepIndex(st) == CHOOSE i \in 1..Len(PipelineOrder) : PipelineOrder[i] = st

StepsAfter(st) ==
    {PipelineOrder[i] : i \in (StepIndex(st) + 1)..Len(PipelineOrder)}

\* the pipeline step an await of handleGenerateClinker belongs to
StepOfPc(pc) ==
    CASE pc = "fetch" -> "fetch-profile"
      [] pc = "prompt" -> "generate-image"
      [] pc = "image" -> "generate-image"
      [] pc = "blob" -> "upload-image"
      [] pc = "uploadImage" -> "upload-image"
      [] pc = "uploadMetadata" -> "upload-metadata"

\* the effect cleanup: the running check's closure gets cancelled = true
CancelAll(tasks) == {[t EXCEPT !.cancelled = TRUE] : t \in tasks}

\* the effect without its cleanup: the checks started earlier stay live
OwnTasksAfterEffect_NoCleanup(fid, addr) ==
    ownTasks \cup
        (IF fid # 0 /\ addr # "none"
         THEN {[fid |-> fid, addr |-> addr, cancelled |-> FALSE]}
         ELSE {})

\* walletOwnsFid effect, lines 153-171: the checks in flight after it ran
OwnTasksAfterEffect(fid, addr) ==
    CancelAll(ownTasks) \cup
        (IF fid # 0 /\ addr # "none"
         THEN {[fid |-> fid, addr |-> addr, cancelled |-> FALSE]}
         ELSE {})

StartedByOwnershipEffect(fid, addr) ==
    IF fid # 0 /\ addr # "none" THEN {"verify-ownership"} ELSE {}

\* auto-generate effect, lines 417-421
AutoGenerateCond(st, fid, img) == st = "idle" /\ fid # 0 /\ img = "null"

\* handleGenerateClinker up to its first await (lines 181-200), run by the
\* auto-generate effect of a commit whose status is st and whose FID is fid
AutoGenerateEffect(st, fid) ==
    IF AutoGenerateCond(st, fid, generatedImageUrl)
    THEN /\ preparedMintData' = "null"
         /\ generatedImageUrl' = "null"
         /\ IF isFidMinted = "true"
            THEN /\ status' = "error"
                 /\ errorMsg' = "Clinker for FID has already been minted!"
                 /\ genPc' = "none"
            ELSE /\ status' = "verifying"
                 /\ errorMsg' = "null"
                 /\ genPc' = "fetch"
    ELSE /\ status' = st
         /\ UNCHANGED <<errorMsg, preparedMintData, generatedImageUrl, genPc>>

StartedByAutoGenerate(st, fid) ==
    IF AutoGenerateCond(st, fid, generatedImageUrl) /\ isFidMinted # "true"
    THEN {"fetch-profile"} ELSE {}

\* the first commit: the effects run with the initial state
Mount ==
    /\ ~mounted
    /\ mounted' = TRUE
    /\ ownTasks' = OwnTasksAfterEffect(userFid, address)
    /\ walletOwnsFid' = "null"
    /\ AutoGenerateEffect(status, userFid)
    /\ stepsStarted' = stepsStarted \cup StartedByOwnershipEffect(userFid, address)
                          \cup StartedByAutoGenerate(status, userFid)
    /\ ownHistory' = NoOwnHistory
    /\ UNCHANGED <<cvars, pvars, avars, gvars, rvars, fvars>>
    /\ UNCHANGED <<userFid, address, regenCounter, userPhase, isFidMinted, hasEnoughEth,
                   mintSuccessData, mintPc, mintOutcome, chainMinted, verifiedTrue,
                   stepsOk, failedAt, mintCall>>

\* farcasterContext.fid arrives: setUserFid (lines 146-150), then the effects of
\* the commit with the new FID
ContextFid ==
    /\ mounted
    /\ userFid = 0
    /\ userFid' = FarcasterFid
    /\ ownTasks' = OwnTasksAfterEffect(FarcasterFid, address)
    /\ walletOwnsFid' = "null"
    /\ AutoGenerateEffect(status, FarcasterFid)
    /\ stepsStarted' = stepsStarted \cup StartedByOwnershipEffect(FarcasterFid, address)
                          \cup StartedByAutoGenerate(status, FarcasterFid)
    /\ ownHistory' = NoOwnHistory
    /\ UNCHANGED <<cvars, pvars, avars, gvars, rvars, fvars>>
    /\ UNCHANGED <<mounted, address, regenCounter, userPhase, isFidMinted, hasEnoughEth,
                   mintSuccessData, mintPc, mintOutcome, chainMinted, verifiedTrue,
                   stepsOk, failedAt, mintCall>>

\* the user connects, switches or disconnects the wallet; the walletOwnsFid
\* effect runs in the commit that follows
WalletChange ==
    /\ mounted
    /\ \E a \in Wallets \cup {"none"} :
         /\ a # address
         /\ address' = a
         /\ ownTasks' = OwnTasksAfterEffect(userFid, a)
         /\ stepsStarted' = stepsStarted \cup StartedByOwnershipEffect(userFid, a)
    /\ walletOwnsFid' = "null"
    /\ ownHistory' = NoOwnHistory
    /\ UNCHANGED <<cvars, pvars, avars, gvars, rvars, fvars>>
    /\ UNCHANGED <<mounted, status, errorMsg, userFid, preparedMintData,
                   generatedImageUrl, regenCounter, userPhase, isFidMinted, hasEnoughEth,
                   mintSuccessData, genPc, mintPc, mintOutcome, chainMinted,
                   verifiedTrue, stepsOk, failedAt, mintCall>>

\* a verifyFidOwnership call resolves (it returns false when the profile cannot
\* be fetched); lines 159-160
OwnershipDone ==
    \E t \in ownTasks, fetched \in BOOLEAN :
       LET ok == fetched /\ Owns(t.fid, t.addr) IN
       /\ ownTasks' = ownTasks \ {t}
       /\ walletOwnsFid' = IF t.cancelled THEN walletOwnsFid
                           ELSE IF ok THEN "true" ELSE "false"
       /\ verifiedTrue' = IF ok THEN verifiedTrue \cup {<<t.fid, t.addr>>}
                          ELSE verifiedTrue
       /\ stepsOk' = IF ok THEN stepsOk \cup {"verify-ownership"} ELSE stepsOk
       /\ ownHistory' =
             IF ~t.cancelled THEN [ownHistory EXCEPT !.writer = <<t.fid, t.addr>>]
             ELSE IF <<t.fid, t.addr>> # <<userFid, address>>
             THEN [ownHistory EXCEPT !.staleDropped = TRUE]
             ELSE ownHistory
       /\ UNCHANGED <<cvars, pvars, avars, gvars, rvars, fvars>>
       /\ UNCHANGED <<mounted, status, errorMsg, userFid, address, preparedMintData,
                      generatedImageUrl, regenCounter, userPhase, isFidMinted,
                      hasEnoughEth, mintSuccessData, genPc, mintPc, mintOutcome,
                      chainMinted, stepsStarted, failedAt, mintCall>>

\* where handleGenerateClinker continues when the await at pc resolves (ok) or
\* rejects / yields null (~ok): the next await and the status set on the way
AfterAwait_SwallowUploadError(pc, ok) ==
    CASE pc = "fetch" -> IF ok THEN [pc |-> "prompt", status |-> "generating"]
                         ELSE [pc |-> "none", status |-> "error"]
      [] pc = "prompt" -> [pc |-> "image", status |-> "generating"]
      [] pc = "image" -> IF ok THEN [pc |-> "blob", status |-> "preparing"]
                         ELSE [pc |-> "none", status |-> "error"]
      [] pc = "blob" -> IF ok THEN [pc |-> "uploadImage", status |-> "preparing"]
                        ELSE [pc |-> "none", status |-> "error"]
      [] pc = "uploadImage" -> [pc |-> "uploadMetadata", status |-> "preparing"]
      [] pc = "uploadMetadata" -> IF ok THEN [pc |-> "none", status |-> "ready"]
                                  ELSE [pc |-> "none", status |-> "error"]

\* the handler with the catch of the upload block leaving the status alone
AfterAwait_UploadErrorKeepsStatus(pc, ok) ==
    CASE pc = "fetch" -> IF ok THEN [pc |-> "prompt", status |-> "generating"]
                         ELSE [pc |-> "none", status |-> "error"]
      [] pc = "prompt" -> [pc |-> "image", status |-> "generating"]
      [] pc = "image" -> IF ok THEN [pc |-> "blob", status |-> "preparing"]
                         ELSE [pc |-> "none", status |-> "error"]
      [] pc = "blob" -> IF ok THEN [pc |-> "uploadImage", status |-> "preparing"]
                        ELSE [pc |-> "none", status |-> "preparing"]
      [] pc = "uploadImage" -> IF ok THEN [pc |-> "uploadMetadata", status |-> "preparing"]
                               ELSE [pc |-> "none", status |-> "preparing"]
      [] pc = "uploadMetadata" -> IF ok THEN [pc |-> "none", status |-> "ready"]
                                  ELSE [pc |-> "none", status |-> "preparing"]

AfterAwait(pc, ok) ==
    CASE pc = "fetch" -> IF ok THEN [pc |-> "prompt", status |-> "generating"]
                         ELSE [pc |-> "none", status |-> "error"]
      [] pc = "prompt" -> [pc |-> "image", status |-> "generating"]
      [] pc = "image" -> IF ok THEN [pc |-> "blob", status |-> "preparing"]
                         ELSE [pc |-> "none", status |-> "error"]
      [] pc = "blob" -> IF ok THEN [pc |-> "uploadImage", status |-> "preparing"]
                        ELSE [pc |-> "none", status |-> "error"]
      [] pc = "uploadImage" -> IF ok THEN [pc |-> "uploadMetadata", status |-> "preparing"]
                               ELSE [pc |-> "none", status |-> "error"]
      [] pc = "uploadMetadata" -> IF ok THEN [pc |-> "none", status |-> "ready"]
                                  ELSE [pc |-> "none", status |-> "error"]

\* the setError message of each failing await (lines 202, 284, 289)
GenerateErrorMsg(pc) ==
    CASE pc = "fetch" -> "Could not fetch data for FID. Please try again."
      [] pc = "image" -> "Failed to generate Clinker. Please try again."
      [] OTHER -> "Failed to prepare mint data. Please try again."

\* the bookkeeping common to every step of handleGenerateClinker
GenerateStep(pc, ok) ==
    LET next == AfterAwait(pc, ok) IN
    /\ genPc = pc
    /\ genPc' = next.pc
    /\ status' = next.status
    /\ errorMsg' = IF ok THEN errorMsg ELSE GenerateErrorMsg(pc)
    /\ failedAt' = IF ok THEN failedAt ELSE StepOfPc(pc)
    /\ stepsOk' = IF ok /\ (next.pc = "none" \/ StepOfPc(next.pc) # StepOfPc(pc))
                  THEN stepsOk \cup {StepOfPc(pc)} ELSE stepsOk
    /\ stepsStarted' = IF next.pc # "none"
                       THEN stepsStarted \cup {StepOfPc(next.pc)} ELSE stepsStarted

\* await fetchUserByFid (line 200); on success setNeynarUser, setStatus, setUserPhase
FetchDone ==
    /\ \E ok \in BOOLEAN, u \in FetchedProfiles :
         /\ GenerateStep("fetch", ok)
         /\ userPhase' = IF ok THEN determineClinkerPhase(u) ELSE userPhase
    /\ UNCHANGED ownHistory
    /\ UNCHANGED <<cvars, pvars, avars, gvars, rvars, fvars>>
    /\ UNCHANGED <<mounted, userFid, address, walletOwnsFid, preparedMintData,
                   generatedImageUrl, regenCounter, isFidMinted, hasEnoughEth,
                   mintSuccessData, ownTasks, mintPc, mintOutcome, chainMinted,
                   verifiedTrue, mintCall>>

\* await generateClinkerPrompt (line 215), then setRegenCounter and the call of
\* imageService.generateClinkerImage
PromptDone ==
    /\ GenerateStep("prompt", TRUE)
    /\ regenCounter' = regenCounter + 1
    /\ UNCHANGED ownHistory
    /\ UNCHANGED <<cvars, pvars, avars, gvars, rvars, fvars>>
    /\ UNCHANGED <<mounted, userFid, address, walletOwnsFid, preparedMintData,
                   generatedImageUrl, userPhase, isFidMinted, hasEnoughEth,
                   mintSuccessData, ownTasks, mintPc, mintOutcome, chainMinted,
                   verifiedTrue, mintCall>>

\* await imageService.generateClinkerImage (line 223)
ImageDone ==
    /\ \E ok \in BOOLEAN :
         /\ GenerateStep("image", ok)
         /\ generatedImageUrl' = IF ok THEN "image" ELSE generatedImageUrl
    /\ UNCHANGED ownHistory
    /\ UNCHANGED <<cvars, pvars, avars, gvars, rvars, fvars>>
    /\ UNCHANGED <<mounted, userFid, address, walletOwnsFid, preparedMintData,
                   regenCounter, userPhase, isFidMinted, hasEnoughEth, mintSuccessData,
                   ownTasks, mintPc, mintOutcome, chainMinted, verifiedTrue, mintCall>>

\* await blobFromUrl (line 243)
BlobDone ==
    /\ \E ok \in BOOLEAN : GenerateStep("blob", ok)
    /\ UNCHANGED ownHistory
    /\ UNCHANGED <<cvars, pvars, avars, gvars, rvars, fvars>>
    /\ UNCHANGED <<mounted, userFid, address, walletOwnsFid, preparedMintData,
                   generatedImageUrl, regenCounter, userPhase, isFidMinted, hasEnoughEth,
                   mintSuccessData, ownTasks, mintPc, mintOutcome, chainMinted,
                   verifiedTrue, mintCall>>

\* await uploadImageBlob (line 245)
UploadImageDone ==
    /\ \E ok \in BOOLEAN : GenerateStep("uploadImage", ok)
    /\ UNCHANGED ownHistory
    /\ UNCHANGED <<cvars, pvars, avars, gvars, rvars, fvars>>
    /\ UNCHANGED <<mounted, userFid, address, walletOwnsFid, preparedMintData,
                   generatedImageUrl, regenCounter, userPhase, isFidMinted, hasEnoughEth,
                   mintSuccessData, ownTasks, mintPc, mintOutcome, chainMinted,
                   verifiedTrue, mintCall>>

\* await uploadMetadata (line 277), then setPreparedMintData and setStatus("ready")
UploadMetadataDone ==
    /\ \E ok \in BOOLEAN :
         /\ GenerateStep("uploadMetadata", ok)
         /\ preparedMintData' = IF ok THEN "prepared" ELSE preparedMintData
    /\ UNCHANGED ownHistory
    /\ UNCHANGED <<cvars, pvars, avars, gvars, rvars, fvars>>
    /\ UNCHANGED <<mounted, userFid, address, walletOwnsFid, generatedImageUrl,
                   regenCounter, userPhase, isFidMinted, hasEnoughEth, mintSuccessData,
                   ownTasks, mintPc, mintOutcome, chainMinted, verifiedTrue, mintCall>>

\* the mint button is on screen: not the no-FID view, not the minted view, not
\* covered by the success dialog
MintButtonShown ==
    /\ userFid # 0
    /\ isFidMinted # "true"
    /\ ~(status = "success" /\ mintSuccessData # "null")

\* the button's disabled attribute, lines 585-593
MintButtonDisabled ==
    \/ address = "none"
    \/ ~hasEnoughEth
    \/ preparedMintData = "null"
    \/ status \in {"preparing", "minting", "generating", "verifying"}

\* the guard of handleMintClinker, lines 300-307
MintGuard ==
    /\ preparedMintData # "null"
    /\ userFid # 0
    /\ address # "none"
    /\ walletOwnsFid = "true"

\* a click on the mint button: handleMintClinker up to the haptics await (line 314)
ClickMint ==
    /\ mounted
    /\ MintButtonShown
    /\ ~MintButtonDisabled
    /\ MintGuard
    /\ status' = "minting"
    /\ mintPc' = "haptic"
    /\ UNCHANGED ownHistory
    /\ UNCHANGED <<cvars, pvars, avars, gvars, rvars, fvars>>
    /\ UNCHANGED <<mounted, errorMsg, userFid, address, walletOwnsFid, preparedMintData,
                   generatedImageUrl, regenCounter, userPhase, isFidMinted, hasEnoughEth,
                   mintSuccessData, ownTasks, genPc, mintOutcome, chainMinted,
                   verifiedTrue, stepsStarted, stepsOk, failedAt, mintCall>>

\* the haptics await returns and mintClinker is called (line 323); writeContract
\* signs with the wallet connected now, the FID is the one the handler captured
HapticDone ==
    /\ mintPc = "haptic"
    /\ mintPc' = "mintClinker"
    /\ mintCall' = [fid |-> userFid, wallet |-> address,
                    verified |-> <<userFid, address>> \in verifiedTrue,
                    result |-> "pending"]
    /\ stepsStarted' = stepsStarted \cup {"mint"}
    /\ UNCHANGED ownHistory
    /\ UNCHANGED <<cvars, pvars, avars, gvars, rvars, fvars>>
    /\ UNCHANGED <<mounted, status, errorMsg, userFid, address, walletOwnsFid,
                   preparedMintData, generatedImageUrl, regenCounter, userPhase,
                   isFidMinted, hasEnoughEth, mintSuccessData, ownTasks, genPc,
                   mintOutcome, chainMinted, verifiedTrue, stepsOk, failedAt>>

\* the ways mintClinker can end
\* the ways mintClinker can end: the transaction is mined and succeeds ("ok"); the
\* wallet rejects it; writeContract throws because the call would revert
\* ("FidAlreadyMinted", or "failed" for any other error); or the transaction is
\* mined and reverts ("minedReverted"): waitForTransactionReceipt then returns the
\* receipt and mintClinker returns {hash, fid} without looking at receipt.status
MintOutcomes ==
    {"ok"} \cup {"rejected", "FidAlreadyMinted", "failed", "minedReverted"}

\* the outcomes after which mintClinker returns instead of throwing
MintReturns == {"ok", "minedReverted"}

\* mintClinker resolves or rejects; the handler then awaits the result haptic
MintResolved ==
    /\ mintPc = "mintClinker"
    /\ \E out \in MintOutcomes :
         /\ out = "ok" => (~chainMinted /\ address # "none")
         /\ out = "minedReverted" => address # "none"
         /\ out = "FidAlreadyMinted" => chainMinted
         /\ mintOutcome' = out
         /\ mintCall' = [mintCall EXCEPT !.result = out]
         /\ chainMinted' = (chainMinted \/ out = "ok")
    /\ mintPc' = "hapticResult"
    /\ UNCHANGED ownHistory
    /\ UNCHANGED <<cvars, pvars, avars, gvars, rvars, fvars>>
    /\ UNCHANGED <<mounted, status, errorMsg, userFid, address, walletOwnsFid,
                   preparedMintData, generatedImageUrl, regenCounter, userPhase,
                   isFidMinted, hasEnoughEth, mintSuccessData, ownTasks, genPc,
                   verifiedTrue, stepsStarted, stepsOk, failedAt>>

\* the error message of the catch block, lines 353-360
MintErrorMsg(out) ==
    CASE out = "rejected" -> "Transaction cancelled"
      [] out = "FidAlreadyMinted" -> "This FID has already been minted"
      [] OTHER -> "Minting failed"

\* the result haptic returns: setMintSuccessData / setStatus("success"), or
\* setError / setStatus("error")
MintFinish ==
    /\ mintPc = "hapticResult"
    /\ mintPc' = "none"
    /\ mintOutcome' = "none"
    /\ IF mintOutcome \in MintReturns
       THEN /\ mintSuccessData' = "set"
            /\ status' = "success"
            /\ stepsOk' = IF mintOutcome = "ok" THEN stepsOk \cup {"mint"} ELSE stepsOk
            /\ UNCHANGED errorMsg
       ELSE /\ errorMsg' = MintErrorMsg(mintOutcome)
            /\ status' = "error"
            /\ UNCHANGED <<mintSuccessData, stepsOk>>
    /\ UNCHANGED ownHistory
    /\ UNCHANGED <<cvars, pvars, avars, gvars, rvars, fvars>>
    /\ UNCHANGED <<mounted, userFid, address, walletOwnsFid, preparedMintData,
                   generatedImageUrl, regenCounter, userPhase, isFidMinted, hasEnoughEth,
                   ownTasks, genPc, chainMinted, verifiedTrue, stepsStarted, failedAt,
                   mintCall>>

\* the Close button of the success dialog (lines 798-803): setStatus("idle"), then
\* the auto-generate effect of that commit
CloseDialog ==
    /\ status = "success"
    /\ mintSuccessData # "null"
    /\ AutoGenerateEffect("idle", userFid)
    /\ stepsStarted' = stepsStarted \cup StartedByAutoGenerate("idle", userFid)
    /\ UNCHANGED ownHistory
    /\ UNCHANGED <<cvars, pvars, avars, gvars, rvars, fvars>>
    /\ UNCHANGED <<mounted, userFid, address, walletOwnsFid, regenCounter, userPhase,
                   isFidMinted, hasEnoughEth, mintSuccessData, ownTasks, mintPc,
                   mintOutcome, chainMinted, verifiedTrue, stepsOk, failedAt, mintCall>>

\* the isFidMinted contract read (lines 91-96) delivers the on-chain value
ReadIsFidMinted ==
    /\ mounted
    /\ userFid # 0
    /\ isFidMinted' = IF chainMinted THEN "true" ELSE "false"
    /\ isFidMinted' # isFidMinted
    /\ UNCHANGED ownHistory
    /\ UNCHANGED <<cvars, pvars, avars, gvars, rvars, fvars>>
    /\ UNCHANGED <<mounted, status, errorMsg, userFid, address, walletOwnsFid,
                   preparedMintData, generatedImageUrl, regenCounter, userPhase,
                   hasEnoughEth, mintSuccessData, ownTasks, genPc, mintPc, mintOutcome,
                   chainMinted, verifiedTrue, stepsStarted, stepsOk, failedAt, mintCall>>

\* the balance read (lines 137-143) delivers a new value
BalanceChange ==
    /\ mounted
    /\ hasEnoughEth' = ~hasEnoughEth
    /\ UNCHANGED ownHistory
    /\ UNCHANGED <<cvars, pvars, avars, gvars, rvars, fvars>>
    /\ UNCHANGED <<mounted, status, errorMsg, userFid, address, walletOwnsFid,
                   preparedMintData, generatedImageUrl, regenCounter, userPhase,
                   isFidMinted, mintSuccessData, ownTasks, genPc, mintPc, mintOutcome,
                   chainMinted, verifiedTrue, stepsStarted, stepsOk, failedAt, mintCall>>

\* the state after construction: development mode starts with TEST_FID, production
\* with no FID; a wallet may already be connected; the FID may already be minted
InitComponent ==
    /\ mounted = FALSE
    /\ status = "idle"
    /\ errorMsg = "null"
    /\ userFid \in {0, TEST_FID}
    /\ address \in Wallets \cup {"none"}
    /\ walletOwnsFid = "null"
    /\ preparedMintData = "null"
    /\ generatedImageUrl = "null"
    /\ regenCounter = 0
    /\ userPhase = 1
    /\ isFidMinted = "undefined"
    /\ hasEnoughEth \in BOOLEAN
    /\ mintSuccessData = "null"
    /\ ownTasks = {}
    /\ genPc = "none"
    /\ mintPc = "none"
    /\ mintOutcome = "none"
    /\ chainMinted \in BOOLEAN
    /\ verifiedTrue = {}
    /\ stepsStarted = {}
    /\ stepsOk = {}
    /\ failedAt = "none"
    /\ mintCall = NoMintCall
    /\ ownHistory = NoOwnHistory

NextComponent ==
    \/ Mount
    \/ ContextFid
    \/ WalletChange
    \/ OwnershipDone
    \/ FetchDone
    \/ PromptDone
    \/ ImageDone
    \/ BlobDone
    \/ UploadImageDone
    \/ UploadMetadataDone
    \/ ClickMint
    \/ HapticDone
    \/ MintResolved
    \/ MintFinish
    \/ CloseDialog
    \/ ReadIsFidMinted
    \/ BalanceChange

ComponentStart ==
    /\ InitComponent /\ ContractIdle /\ PhaseIdle /\ AccessoriesIdle /\ PromptIdle
    /\ RegenIdle /\ FunctionsIdle

SpecComponent == ComponentStart /\ [][NextComponent]_vars

\* C2: mintClinker is called only when verifyFidOwnership has returned true for the
\* FID being minted together with the wallet connected at the moment of the call
\* (stated for the calls made while a wallet is connected).
C2_OwnershipVerifiedBeforeMint ==
    (mintCall # NoMintCall /\ mintCall.wallet \in Wallets) => mintCall.verified

\* the step that precedes each step in the documented order
PreviousStep(st) == PipelineOrder[StepIndex(st) - 1]

\* C3: the pipeline verify-ownership, fetch-profile, generate-image, upload-image,
\* upload-metadata, mint is strictly sequential: a step starts only after the step
\* before it has completed successfully.
C3_StrictlySequential ==
    [][ \A st \in stepsStarted' \ stepsStarted :
            st # "verify-ownership" => PreviousStep(st) \in stepsOk ]_vars

\* C4: once profile fetch, image generation, image upload or metadata upload has
\* failed, no later step of the attempt has run, the status is error, and no mint
\* was submitted with data of the attempt.
C4_FailureAborts ==
    failedAt # "none" =>
        /\ status = "error"
        /\ genPc = "none"
        /\ stepsStarted \cap StepsAfter(failedAt) = {}
        /\ preparedMintData = "null"
        /\ mintPc = "none"
        /\ mintCall = NoMintCall

\* C4 witness: the image was generated, its upload failed, and the run stopped there
C4_Witness ==
    /\ failedAt = "upload-image"
    /\ "generate-image" \in stepsOk
    /\ generatedImageUrl = "image"
    /\ status = "error"

\* the awaits of the two handlers behind which a network call is outstanding
NetworkPcs == {"fetch", "image", "uploadImage", "uploadMetadata", "mintClinker"}

\* the number of network calls of the pipeline that are outstanding
Outstanding ==
    Cardinality(ownTasks) + (IF genPc \in NetworkPcs THEN 1 ELSE 0)
                          + (IF mintPc \in NetworkPcs THEN 1 ELSE 0)

\* C17: at most one of the requests ownership verification, profile fetch, image
\* generation, image upload, metadata upload and mint transaction is outstanding at
\* any time.
C17_OneCallInFlight == Outstanding <= 1

\* C18: once the status is error nothing continues by itself, and work continues
\* only by starting again at the first step of the pipeline: the mint handler is
\* never started from the error status with the data prepared before the failure.
C18_RetryOnlyFromTheTop ==
    [][ status = "error" =>
            /\ mintPc' = "none"
            /\ genPc' \in {"none", "fetch"} ]_vars

\* the failure the session is in, by category ("none" if there is none)
FailureCategory ==
    IF failedAt = "fetch-profile" THEN "profile-not-found"
    ELSE IF failedAt = "generate-image" THEN "generation-failure"
    ELSE IF failedAt \in {"upload-image", "upload-metadata"} THEN "upload-failure"
    ELSE IF mintPc = "none" /\ mintCall.result = "rejected" THEN "transaction-rejected"
    ELSE IF mintPc = "none" /\ mintCall.result = "FidAlreadyMinted" THEN "already-minted"
    ELSE IF mintPc = "none" /\ mintCall.result \in {"failed", "minedReverted"}
         THEN "transaction-reverted"
    ELSE IF walletOwnsFid = "false" /\ genPc = "none" /\ preparedMintData # "null"
         THEN "ownership-mismatch"
    ELSE "none"

\* the messages of the categories, each different from the others
CategoryMessage ==
    [c \in {"profile-not-found", "generation-failure", "upload-failure",
            "transaction-rejected", "already-minted", "transaction-reverted",
            "ownership-mismatch"} |->
        CASE c = "profile-not-found" -> "Could not fetch data for FID. Please try again."
          [] c = "generation-failure" -> "Failed to generate Clinker. Please try again."
          [] c = "upload-failure" -> "Failed to prepare mint data. Please try again."
          [] c = "transaction-rejected" -> "Transaction cancelled"
          [] c = "already-minted" -> "This FID has already been minted"
          [] c = "transaction-reverted" -> "Minting failed"
          [] c = "ownership-mismatch" -> "Ownership verification failed"]

\* C19: each failure category (profile-not-found, ownership-mismatch, already-minted,
\* generation-failure, upload-failure, transaction-rejected, transaction-reverted)
\* drives the component to the error status with a message that differs from the
\* message of every other category.
C19_FailuresEndInError ==
    /\ \A c, d \in DOMAIN CategoryMessage : c # d => CategoryMessage[c] # CategoryMessage[d]
    /\ FailureCategory # "none" =>
           /\ status = "error"
           /\ errorMsg = CategoryMessage[FailureCategory]

GenerationStarts == genPc # "fetch" /\ genPc' = "fetch"

\* C21: the generation pipeline (profile fetch, image generation, IPFS uploads) is
\* never started for a FID that is already minted on-chain, whatever the order of
\* the isFidMinted read completing and the automatic start of generation.
C21_DuplicateCheckBeforeGeneration ==
    [][ GenerationStarts => ~chainMinted ]_vars

\* an awaited call of one of the two handlers resolves or rejects
AwaitResolves ==
    \/ FetchDone
    \/ PromptDone
    \/ ImageDone
    \/ BlobDone
    \/ UploadImageDone
    \/ UploadMetadataDone
    \/ HapticDone
    \/ MintResolved
    \/ MintFinish

\* the component under the assumption that every awaited call eventually resolves
\* or rejects; the user and the contract reads are free to act or not
SpecComponentFair ==
    ComponentStart /\ [][NextComponent]_vars /\ WF_vars(AwaitResolves)

BusyStatuses == {"verifying", "generating", "preparing", "minting"}

\* one of the two handlers is suspended at an await
HandlerRunning == genPc # "none" \/ mintPc # "none"

\* C29: every pipeline run ends: a running handleGenerateClinker eventually returns
\* and leaves the status at ready or error, a handleMintClinker that passed its
\* guards eventually returns and leaves it at success or error, and the status is
\* verifying, generating, preparing or minting only while a handler is running, so
\* it does not stay there forever.
C29_EveryRunEnds ==
    /\ HandlerRunning ~> ~HandlerRunning
    /\ [](status \in BusyStatuses => HandlerRunning)
    /\ [](genPc = "none" \/ mintPc = "none")
    /\ [][ /\ (genPc # "none" /\ genPc' = "none") => status' \in {"ready", "error"}
           /\ (mintPc # "none" /\ mintPc' = "none") => status' \in {"success", "error"}
         ]_vars

\* C29 witness: the generation run ended at ready, and the mint run that followed
\* ended at error because the wallet rejected the transaction
C29_Witness ==
    /\ status = "error"
    /\ genPc = "none"
    /\ mintPc = "none"
    /\ preparedMintData # "null"
    /\ mintCall.result = "rejected"

\* handleMintClinker calls mintClinker in this step
MintSubmitted == mintPc # "mintClinker" /\ mintPc' = "mintClinker"

\* C28: after a mint has succeeded for the FID (the transaction succeeded and the
\* status reached success) the component never calls mintClinker for it again in
\* the session, whatever the user does next.
C28_NoMintAfterSuccess ==
    [][ "mint" \in stepsOk => ~MintSubmitted ]_vars

-----------------------------------------------------------------------------
(* generateClinkerPrompt and its helpers: hashString, hslToHex, extractPfpColors *)

\* a ^ b on the low n bits
RECURSIVE XorBits(_, _, _)
XorBits(a, b, n) ==
    IF n = 0 THEN 0
    ELSE ((a + b) % 2) + 2 * XorBits(a \div 2, b \div 2, n - 1)

\* hash << k kept to 32 bits, on the halves [hi, lo]
Shl32(h, k) ==
    IF k >= 16
    THEN [hi |-> (h.lo * Pow2(k - 16)) % TwoTo16, lo |-> 0]
    ELSE [hi |-> (h.hi * Pow2(k) + (h.lo * Pow2(k)) \div TwoTo16) % TwoTo16,
          lo |-> (h.lo * Pow2(k)) % TwoTo16]

\* a + b modulo 2^32 (the sums of hashString stay below 2^53, so the double holds
\* them exactly and the next ^= or the final >>> 0 reduces them modulo 2^32)
Add32(a, b) ==
    LET lo == a.lo + b.lo
    IN  [hi |-> (a.hi + b.hi + lo \div TwoTo16) % TwoTo16, lo |-> lo % TwoTo16]

\* 2166136261
FnvOffsetBasis == [hi |-> 33052, lo |-> 40389]

\* a round that leaves out the term hash << 24
HashStep_NoShift24(h, c) ==
    LET x == [hi |-> h.hi, lo |-> XorBits(h.lo, c, 16)]
    IN  Add32(x, Add32(Shl32(x, 1), Add32(Shl32(x, 4), Add32(Shl32(x, 7), Shl32(x, 8)))))

\* one round of the loop of hashString for the UTF-16 code unit c
HashStep(h, c) ==
    LET x == [hi |-> h.hi, lo |-> XorBits(h.lo, c, 16)]
    IN  Add32(x, Add32(Shl32(x, 1), Add32(Shl32(x, 4), Add32(Shl32(x, 7),
              Add32(Shl32(x, 8), Shl32(x, 24))))))

\* the loop of hashString (the singleton sets bind the hash after each round and
\* the rest of the string as values, so that they are computed once)
RECURSIVE HashFrom(_, _)
HashFrom(h, codes) ==
    IF codes = <<>> THEN h
    ELSE CHOOSE result \in {HashFrom(next, rest) :
                               next \in {HashStep(h, Head(codes))},
                               rest \in {Tail(codes)}} : TRUE

\* hashString of a string given as its sequence of char codes
hashString(codes) == HashFrom(FnvOffsetBasis, codes)

\* the char codes (input.charCodeAt) of the strings that are hashed
CharCodes(str) ==
    CASE str = "Baby" -> <<66, 97, 98, 121>>
      [] str = "Youngin" -> <<89, 111, 117, 110, 103, 105, 110>>
      [] str = "Rising Star" -> <<82, 105, 115, 105, 110, 103, 32, 83, 116, 97, 114>>
      [] str = "OG" -> <<79, 71>>
      [] str = "dwr" -> <<100, 119, 114>>
      [] str = "ayojoseph" -> <<97, 121, 111, 106, 111, 115, 101, 112, 104>>
      [] str = "Dan" -> <<68, 97, 110>>
      [] str = "Ayo" -> <<65, 121, 111>>
      [] str = "-" -> <<45>>

\* the char codes of a non-negative integer interpolated into a template string
RECURSIVE DecimalCodes(_)
DecimalCodes(n) ==
    IF n < 10 THEN <<48 + n>> ELSE DecimalCodes(n \div 10) \o <<48 + (n % 10)>>

\* seed % m for an unsigned 32-bit seed
Mod32(h, m) == ((h.hi % m) * (TwoTo16 % m) + h.lo) % m

clamp(n, min, max) ==
    LET low == IF n < max THEN n ELSE max IN IF low > min THEN low ELSE min

AbsInt(n) == IF n < 0 THEN -n ELSE n

HexDigits == <<"0", "1", "2", "3", "4", "5", "6", "7", "8", "9",
               "A", "B", "C", "D", "E", "F">>

\* v.toString(16).padStart(2, "0") in upper case, for 0 <= v <= 255
HexByte(v) == HexDigits[(v \div 16) + 1] \o HexDigits[(v % 16) + 1]

\* Math.round((v + m) * 255) for v and m held as numerators over 600000.  Where
\* the exact value is a tie k + 1/2 the double product is either the tie itself
\* (Math.round gives k + 1) or falls just short of it (k); short tells which.
RoundChannel(v, m, short) ==
    LET n == 2 * (v + m) * 255 + 600000
    IN  IF n % 1200000 = 0 /\ short THEN (n \div 1200000) - 1 ELSE n \div 1200000

\* a conversion that takes every hue for one of the first sector
hslChannels_FirstSectorOnly(h0, s0, l0, short) ==
    LET h == JsRem(JsRem(h0, 360) + 360, 360)
        s == clamp(s0, 0, 100)
        l == clamp(l0, 0, 100)
        c10000 == (100 - AbsInt(2 * l - 100)) * s
        m == 6000 * l - 30 * c10000
        val == [c |-> 60 * c10000, x |-> c10000 * (60 - AbsInt((h % 120) - 60)),
                zero |-> 0]
        rgb == <<"c", "x", "zero">>
    IN  [i \in 1..3 |-> RoundChannel(val[rgb[i]], m, short[rgb[i]])]

\* the three channels hslToHex writes in hex, for integer h, s, l.  c, x and m are
\* held as numerators over 600000; short says, for each of c, x and 0, whether the
\* double (v + m) * 255 falls short of an exact tie.
hslChannels(h0, s0, l0, short) ==
    LET h == JsRem(JsRem(h0, 360) + 360, 360)
        s == clamp(s0, 0, 100)
        l == clamp(l0, 0, 100)
        c10000 == (100 - AbsInt(2 * l - 100)) * s
        m == 6000 * l - 30 * c10000
        val == [c |-> 60 * c10000, x |-> c10000 * (60 - AbsInt((h % 120) - 60)),
                zero |-> 0]
        rgb == IF h < 60 THEN <<"c", "x", "zero">>
               ELSE IF h < 120 THEN <<"x", "c", "zero">>
               ELSE IF h < 180 THEN <<"zero", "c", "x">>
               ELSE IF h < 240 THEN <<"zero", "x", "c">>
               ELSE IF h < 300 THEN <<"x", "zero", "c">>
               ELSE <<"c", "zero", "x">>
    IN  [i \in 1..3 |-> RoundChannel(val[rgb[i]], m, short[rgb[i]])]

\* `#${toHex(r)}${toHex(g)}${toHex(b)}`.toUpperCase()
HexOfChannels(rgb) == "#" \o HexByte(rgb[1]) \o HexByte(rgb[2]) \o HexByte(rgb[3])

NoTieFallsShort == [c |-> FALSE, x |-> FALSE, zero |-> FALSE]

\* hslToHex for integer h, s, l, with Math.round taken on the exact value
hslToHex(h0, s0, l0) == HexOfChannels(hslChannels(h0, s0, l0, NoTieFallsShort))

\* the number of k-means clusters (the three centroids are written out below) and
\* of k-means iterations of extractPfpColors
Clusters == 3
KMeansIterations == 10

\* a pixel of the 50x50 canvas is [r, g, b, a]; the loop of lines 117-131 keeps
\* the pixels that are opaque, neither too dark nor too light, and not grey
MaxOf3(a, b, c) == LET m == IF a > b THEN a ELSE b IN IF m > c THEN m ELSE c
MinOf3(a, b, c) == LET m == IF a < b THEN a ELSE b IN IF m < c THEN m ELSE c

IsColorSample(p) ==
    /\ ~(p.a < 128)
    /\ ~(p.r + p.g + p.b < 90 \/ p.r + p.g + p.b > 720)
    /\ ~(MaxOf3(AbsInt(p.r - p.g), AbsInt(p.g - p.b), AbsInt(p.r - p.b)) < 15)

RECURSIVE ColorSamples(_)
ColorSamples(pixels) ==
    IF pixels = <<>> THEN <<>>
    ELSE LET p == Head(pixels)
         IN  (IF IsColorSample(p) THEN <<(<<p.r, p.g, p.b>>)>> ELSE <<>>)
                 \o ColorSamples(Tail(pixels))

\* a centroid is the average of a group, held exactly as [sum, n]
CentroidOf(color) == [sum |-> color, n |-> 1]

\* n1^2 * n2^2 * (squared distance from color to centroid c1); comparing these
\* for two centroids compares the distances of lines 156-160
ScaledDist(color, c1, c2) ==
    ( (c1.n * color[1] - c1.sum[1]) * (c1.n * color[1] - c1.sum[1])
    + (c1.n * color[2] - c1.sum[2]) * (c1.n * color[2] - c1.sum[2])
    + (c1.n * color[3] - c1.sum[3]) * (c1.n * color[3] - c1.sum[3]) ) * c2.n * c2.n

Nearer(color, c1, c2) == ScaledDist(color, c1, c2) < ScaledDist(color, c2, c1)

\* lines 153-165: the first centroid at minimal distance (dist < minDist is strict)
BestCluster(color, centroids) ==
    LET b1 == IF Nearer(color, centroids[2], centroids[1]) THEN 2 ELSE 1
    IN  IF Nearer(color, centroids[3], centroids[b1]) THEN 3 ELSE b1

RECURSIVE GroupOf(_, _, _)
GroupOf(c, colors, centroids) ==
    IF colors = <<>> THEN <<>>
    ELSE (IF BestCluster(Head(colors), centroids) = c THEN <<Head(colors)>> ELSE <<>>)
             \o GroupOf(c, Tail(colors), centroids)

RECURSIVE SumColors(_)
SumColors(group) ==
    IF group = <<>> THEN <<0, 0, 0>>
    ELSE LET rest == SumColors(Tail(group))
             col == Head(group)
         IN  <<col[1] + rest[1], col[2] + rest[2], col[3] + rest[3]>>

\* lines 170-177: an empty group leaves its centroid where it was
RecalculateOne(c, colors, centroids) ==
    LET group == GroupOf(c, colors, centroids)
    IN  IF Len(group) > 0 THEN [sum |-> SumColors(group), n |-> Len(group)]
        ELSE centroids[c]

Recalculate(colors, centroids) ==
    <<RecalculateOne(1, colors, centroids), RecalculateOne(2, colors, centroids),
      RecalculateOne(3, colors, centroids)>>

\* the loop of lines 148-178 (the singleton set binds the centroids of each
\* iteration as a value, so that they are computed once)
RECURSIVE KMeans(_, _, _)
KMeans(colors, centroids, iter) ==
    IF iter = KMeansIterations THEN centroids
    ELSE CHOOSE result \in {KMeans(colors, next, iter + 1) :
                               next \in {Recalculate(colors, centroids)}} : TRUE

\* Math.round(sum / n)
RoundDiv(sum, n) == (2 * sum + n) \div (2 * n)

\* the s of rgbToHsl (lines 69-87) for a centroid, as a fraction [num, den]
Saturation(c) ==
    LET max == MaxOf3(c.sum[1], c.sum[2], c.sum[3])
        min == MinOf3(c.sum[1], c.sum[2], c.sum[3])
    IN  IF max = min THEN [num |-> 0, den |-> 1]
        ELSE IF max + min > 255 * c.n
             THEN [num |-> max - min, den |-> 2 * 255 * c.n - max - min]
             ELSE [num |-> max - min, den |-> max + min]

\* line 181-185
ColorResult(c) ==
    [hex |-> "#" \o HexByte(RoundDiv(c.sum[1], c.n)) \o HexByte(RoundDiv(c.sum[2], c.n))
                 \o HexByte(RoundDiv(c.sum[3], c.n)),
     s |-> Saturation(c)]

MoreSaturated(a, b) == a.s.num * b.s.den > b.s.num * a.s.den

\* colorResults.sort((a, b) => b.s - a.s): stable, most saturated first
RECURSIVE InsertSorted(_, _)
InsertSorted(sorted, x) ==
    IF sorted = <<>> THEN <<x>>
    ELSE IF MoreSaturated(x, Head(sorted)) THEN <<x>> \o sorted
         ELSE <<Head(sorted)>> \o InsertSorted(Tail(sorted), x)

RECURSIVE SortBySaturation(_, _)
SortBySaturation(sorted, rest) ==
    IF rest = <<>> THEN sorted
    ELSE SortBySaturation(InsertSorted(sorted, Head(rest)), Tail(rest))

NoPfpColors == [found |-> FALSE, primary |-> "", secondary |-> "", accent |-> ""]

\* extractPfpColors for a picture [loads, pixels]; random[c] is the value of
\* Math.floor(Math.random() * colors.length) drawn for centroid c (line 144)
extractPfpColors(image, random) ==
    LET colors == ColorSamples(image.pixels)
        initial == <<CentroidOf(colors[random[1] + 1]), CentroidOf(colors[random[2] + 1]),
                     CentroidOf(colors[random[3] + 1])>>
        Sorted(centroids) ==
            SortBySaturation(<<>>, <<ColorResult(centroids[1]),
                ColorResult(centroids[2]), ColorResult(centroids[3])>>)
    IN  IF ~image.loads \/ Len(colors) = 0 THEN NoPfpColors
        ELSE CHOOSE palette \in
                 {[found |-> TRUE, primary |-> results[1].hex,
                   secondary |-> results[2].hex, accent |-> results[3].hex] :
                      results \in {Sorted(final) : final \in {KMeans(colors, initial, 0)}}} :
                 TRUE

\* phaseName and the tier paragraph of the prompt (lines 216-241 and 424-432)
PhaseName(phase) ==
    CASE phase = 4 -> "OG" [] phase = 3 -> "Rising Star" [] phase = 2 -> "Youngin"
      [] OTHER -> "Baby"

PhaseDescription(phase) ==
    CASE phase = 1 -> "Small, compact form with soft edges and gentle proportions."
      [] phase = 2 -> "Growing form with developing features and youthful energy."
      [] phase = 3 -> "Mature presence with refined details and confident stance."
      [] OTHER -> "Commanding ancient form with majestic proportions and legendary aura."

patterns ==
    <<"crystalline facets with geometric edges", "smooth glossy polished surface",
      "rough textured with micro-pores", "iridescent shimmer that shifts colors",
      "matte stone with soft gradient", "metallic sheen with reflective spots",
      "cracked weathered ancient look", "swirling marble-like veins",
      "bumpy pebbled texture", "frosted translucent appearance",
      "layered sedimentary bands", "speckled with tiny dots">>

features ==
    <<"tiny glowing gem embedded in forehead", "subtle lightning-bolt crack pattern",
      "pulsing glowing vein lines", "small crystal cluster growth on side",
      "faint ancient rune marks", "floating energy wisps",
      "bioluminescent spots scattered", "frost or ice crystals forming",
      "miniature orbiting particles", "ethereal smoke trail",
      "prismatic light refraction", "subtle geometric tattoos",
      "small barnacle-like growths", "moss or lichen patches",
      "carved symbolic patterns">>

expressions ==
    <<"curious wide-eyed wonder", "confident knowing gaze", "playful mischievous smile",
      "wise ancient stare", "determined focused look", "serene peaceful calm",
      "cheeky sideways glance", "sleepy half-closed eyes", "excited energetic sparkle",
      "grumpy furrowed brow", "shy bashful look away", "proud chin-up posture">>

proportions ==
    <<"slightly rounder and squatter", "slightly taller and slimmer",
      "perfectly balanced proportions", "wide base tapering up",
      "narrow base widening up", "asymmetric charming tilt">>

eyeShapes ==
    <<"large round pupils", "oval almond-shaped eyes", "small beady eyes",
      "one eye slightly larger", "eyes close together", "eyes wide apart",
      "droopy relaxed eyelids", "alert upturned eyes">>

auraEffects ==
    <<"soft diffused glow", "sharp defined aura", "pulsing rhythmic light",
      "flickering subtle shimmer", "steady constant radiance", "swirling spiral energy",
      "geometric light patterns", "wispy trailing glow">>

\* the three seeds of lines 262-264
PromptSeed(u, phaseName) ==
    hashString(DecimalCodes(u.fid) \o CharCodes("-") \o CharCodes(phaseName)
               \o CharCodes("-") \o CharCodes(u.username) \o CharCodes("-")
               \o DecimalCodes(u.follower_count))

PromptSeed2(u) ==
    hashString(CharCodes(u.username) \o CharCodes("-") \o DecimalCodes(u.fid))

PromptSeed3(u) ==
    hashString(CharCodes(u.display_name) \o CharCodes("-")
               \o DecimalCodes(u.follower_count))

\* seed >> k: the shift works on ToInt32(seed)
SeedSar(sd, k) == Sar(ToInt32(sd), k)

\* the hue computation with the stone offset taken from seed3 alone
PaletteHues_NoTierOffset(sd, sd2, sd3, phase) ==
    LET baseHue == Mod32(sd, 360)
        hueVariation == Mod32(sd2, 60) - 30
    IN  [baseHue |-> baseHue,
         eyeHue |-> (baseHue + hueVariation + 360) % 360,
         stoneHue |-> (baseHue + Mod32(sd3, 40)) % 360,
         accentHue |-> (baseHue + 120 + Mod32(sd, 120)) % 360]

\* baseHue and the three hues handed to hslToHex (part_003 lines 133-146)
PaletteHues(sd, sd2, sd3, phase) ==
    LET baseHue == Mod32(sd, 360)
        hueVariation == Mod32(sd2, 60) - 30
    IN  [baseHue |-> baseHue,
         eyeHue |-> (baseHue + hueVariation + 360) % 360,
         stoneHue |-> (baseHue + phase * 45 + Mod32(sd3, 40)) % 360,
         accentHue |-> (baseHue + 120 + Mod32(sd, 120)) % 360]

\* the deterministic colours of lines 283-298 and 304-319
DeterministicColors(sd, sd2, sd3, phase) ==
    LET hues == PaletteHues(sd, sd2, sd3, phase)
        eyeSat == 65 + Mod32(sd, 25)
        eyeLight == 55 + Mod32(sd2, 20)
        stoneSat == 50 + JsRem(SeedSar(sd, 2), 30)
        stoneLight == 45 + JsRem(SeedSar(sd2, 2), 25)
        accentSat == 60 + Mod32(sd3, 30)
        accentLight == 50 + JsRem(SeedSar(sd, 3), 25)
    IN  [eyeColor |-> hslToHex(hues.eyeHue, eyeSat, eyeLight),
         stoneColor |-> hslToHex(hues.stoneHue, stoneSat, stoneLight),
         accentColor |-> hslToHex(hues.accentHue, accentSat, accentLight)]

\* lines 271-322: the picture's colours when there is a picture and the extraction
\* returns colours, the deterministic colours otherwise
PromptColors(u, sd, sd2, sd3, phase, random) ==
    LET pfpColors == extractPfpColors(u.pfp, random)
    IN  IF u.pfp_url # "" /\ pfpColors.found
        THEN [eyeColor |-> pfpColors.primary, stoneColor |-> pfpColors.secondary,
              accentColor |-> pfpColors.accent]
        ELSE DeterministicColors(sd, sd2, sd3, phase)

\* generateClinkerPrompt(user), with the values Math.random yields inside
\* extractPfpColors.  The prompt is the template of lines 434-466, held as the
\* sequence of the values interpolated into it (the text between them is fixed).
generateClinkerPrompt(u, random) ==
    LET phase == determineClinkerPhase(u)
        phaseName == PhaseName(phase)
        sd == PromptSeed(u, phaseName)
        sd2 == PromptSeed2(u)
        sd3 == PromptSeed3(u)
        colors == PromptColors(u, sd, sd2, sd3, phase, random)
        eyeColor == colors.eyeColor
        stoneColor == colors.stoneColor
        accentColor == colors.accentColor
        surfacePattern == ArrayAt(patterns, Mod32(sd, Len(patterns)))
        uniqueFeature == ArrayAt(features, JsRem(SeedSar(sd, 4), Len(features)))
        personality == ArrayAt(expressions, JsRem(SeedSar(sd, 8), Len(expressions)))
        bodyShape == ArrayAt(proportions, JsRem(SeedSar(sd3, 2), Len(proportions)))
        eyeShape == ArrayAt(eyeShapes,
                            JsRem(Sar(ToInt32(Add32(sd, sd2)), 3), Len(eyeShapes)))
        auraStyle == ArrayAt(auraEffects, JsRem(SeedSar(sd2, 4), Len(auraEffects)))
    IN  [prompt |-> <<phaseName, PhaseDescription(phase),
                      eyeColor, eyeShape, stoneColor, surfacePattern, accentColor,
                      auraStyle, uniqueFeature, bodyShape, personality,
                      surfacePattern, uniqueFeature, bodyShape, eyeShape, eyeColor,
                      auraStyle, accentColor, personality,
                      eyeColor, stoneColor, accentColor>>,
         palette |-> <<eyeColor, stoneColor, accentColor>>]

\* the pixels a picture is made of: a saturated red, a pale blue, a yellow, and a
\* grey that the sampling loop skips
PixelKinds ==
    {[r |-> 200, g |-> 30, b |-> 30, a |-> 255],
     [r |-> 100, g |-> 120, b |-> 200, a |-> 255],
     [r |-> 220, g |-> 200, b |-> 40, a |-> 255],
     [r |-> 128, g |-> 128, b |-> 128, a |-> 255]}

\* pictures have 1..MaxPixels pixels
MaxPixels == 3

PixelSeqs == UNION {[1..n -> PixelKinds] : n \in 1..MaxPixels}

\* what is behind pfp_url: a picture that loads, or one that fails to load
Pictures ==
    {[loads |-> FALSE, pixels |-> <<>>]} \cup {[loads |-> TRUE, pixels |-> px] : px \in PixelSeqs}

\* the profiles generateClinkerPrompt is called with
PromptUsers ==
    {[fid |-> TEST_FID, username |-> "ayojoseph", display_name |-> "Ayo",
      follower_count |-> 6000, score |-> 95, experimental |-> Absent,
      pfp_url |-> "https://pfp", pfp |-> pic] : pic \in Pictures}
    \cup
    {[fid |-> TEST_FID, username |-> "ayojoseph", display_name |-> "Ayo",
      follower_count |-> fc, score |-> 50, experimental |-> Absent,
      pfp_url |-> "", pfp |-> [loads |-> FALSE, pixels |-> <<>>]] : fc \in {150, 6000}}
    \cup
    {[fid |-> 3, username |-> "dwr", display_name |-> "Dan",
      follower_count |-> 0, score |-> Absent, experimental |-> Absent,
      pfp_url |-> "https://pfp", pfp |-> pic] : pic \in Pictures}

\* generateClinkerPrompt is called up to MaxPromptCalls times with the same profile
MaxPromptCalls == 2

\* the values Math.floor(Math.random() * colors.length) can take in one call
RandomDraws(u) ==
    LET n == Len(ColorSamples(u.pfp.pixels))
    IN  IF u.pfp_url = "" \/ ~u.pfp.loads \/ n = 0 THEN {<<0, 0, 0>>}
        ELSE [1..Clusters -> 0..(n - 1)]

InitPrompt ==
    /\ promptUser \in PromptUsers
    /\ promptResults = <<>>

GenerateClinkerPrompt ==
    /\ Len(promptResults) < MaxPromptCalls
    /\ \E random \in RandomDraws(promptUser) :
         promptResults' = Append(promptResults, generateClinkerPrompt(promptUser, random))
    /\ UNCHANGED <<cvars, pvars, avars, uvars, rvars, fvars>>
    /\ UNCHANGED promptUser

PromptStart ==
    /\ InitPrompt /\ ContractIdle /\ PhaseIdle /\ AccessoriesIdle /\ ComponentIdle
    /\ RegenIdle /\ FunctionsIdle

NextPrompt == GenerateClinkerPrompt

SpecPrompt == PromptStart /\ [][NextPrompt]_vars

\* C7: any two calls of the prompt generator with the same profile return the same
\* prompt text and the same three palette colours.
C7_Deterministic ==
    \A i, j \in 1..Len(promptResults) :
        /\ promptResults[i].prompt = promptResults[j].prompt
        /\ promptResults[i].palette = promptResults[j].palette

-----------------------------------------------------------------------------
(* Repeated generation for one FID: generateClinkerPrompt without profile-    *)
(* picture colours, computeSeed and the request of generateClinkerImage       *)

\* the indexes of lines 165, 186, 204, 216, 230 and 244 into the six pools
TraitIndexes(sd, sd2, sd3) ==
    [surfacePattern |-> Mod32(sd, Len(patterns)),
     uniqueFeature |-> JsRem(SeedSar(sd, 4), Len(features)),
     personality |-> JsRem(SeedSar(sd, 8), Len(expressions)),
     bodyShape |-> JsRem(SeedSar(sd3, 2), Len(proportions)),
     eyeShape |-> JsRem(Sar(ToInt32(Add32(sd, sd2)), 3), Len(eyeShapes)),
     auraStyle |-> JsRem(SeedSar(sd2, 4), Len(auraEffects))]

TraitPools ==
    [surfacePattern |-> patterns, uniqueFeature |-> features,
     personality |-> expressions, bodyShape |-> proportions,
     eyeShape |-> eyeShapes, auraStyle |-> auraEffects]

TraitKeys == DOMAIN TraitPools

\* pool[index] for each of the six categorical traits
CategoricalTraits(sd, sd2, sd3) ==
    [k \in TraitKeys |-> ArrayAt(TraitPools[k], TraitIndexes(sd, sd2, sd3)[k])]

\* the tier paragraph of lines 249-257
TierDescription(phase) ==
    CASE phase = 1 -> "BABY tier: Small, compact form with soft edges and gentle proportions."
      [] phase = 2 -> "YOUNGIN tier: Growing form with developing features and youthful energy."
      [] phase = 3 -> "RISING STAR tier: Mature presence with refined details and confident stance."
      [] OTHER -> "OG tier: Commanding ancient form with majestic proportions and legendary aura."

\* a variant whose palette follows the profile picture when there is one
generateClinkerPromptSeeded_PfpPalette(u) ==
    LET phase == determineClinkerPhase(u)
        sd == PromptSeed(u, PhaseName(phase))
        sd2 == PromptSeed2(u)
        sd3 == PromptSeed3(u)
        colors == IF u.pfp_url # ""
                  THEN [eyeColor |-> "#C81E1E", stoneColor |-> "#6478C8",
                        accentColor |-> "#DCC828"]
                  ELSE DeterministicColors(sd, sd2, sd3, phase)
        picks == CategoricalTraits(sd, sd2, sd3)
    IN  [phase |-> phase,
         indexes |-> TraitIndexes(sd, sd2, sd3),
         traits |-> picks,
         palette |-> <<colors.eyeColor, colors.stoneColor, colors.accentColor>>,
         prompt |-> <<u.fid, PhaseName(phase), phase, TierDescription(phase),
                      u.fid, u.username, colors, picks, sd, sd2, sd3,
                      u.username, u.follower_count>>]

\* generateClinkerPrompt(user) of the version whose palette is always computed
\* from the seeds (lines 113-297).  The prompt is the template of lines 259-296,
\* held as the values interpolated into it: the colours and the picks stand for
\* their occurrences, the seeds for their decimal digits.
generateClinkerPromptSeeded(u) ==
    LET phase == determineClinkerPhase(u)
        sd == PromptSeed(u, PhaseName(phase))
        sd2 == PromptSeed2(u)
        sd3 == PromptSeed3(u)
        colors == DeterministicColors(sd, sd2, sd3, phase)
        picks == CategoricalTraits(sd, sd2, sd3)
    IN  [phase |-> phase,
         indexes |-> TraitIndexes(sd, sd2, sd3),
         traits |-> picks,
         palette |-> <<colors.eyeColor, colors.stoneColor, colors.accentColor>>,
         prompt |-> <<u.fid, PhaseName(phase), phase, TierDescription(phase),
                      u.fid, u.username, colors, picks, sd, sd2, sd3,
                      u.username, u.follower_count>>]

\* the modulus of the reduce of computeSeed
SeedModulus == 1000003

\* a reduce that weighs every character alike
RECURSIVE SeedReduce_FixedWeight(_, _, _)
SeedReduce_FixedWeight(codes, i, acc) ==
    IF i >= Len(codes) THEN acc
    ELSE SeedReduce_FixedWeight(codes, i + 1, (acc + codes[i + 1] * 17) % SeedModulus)

\* Array.from(base).reduce((acc, ch, i) => (acc + ch.charCodeAt(0) * (i + 17)) % 1000003, 0)
\* from index i on
RECURSIVE SeedReduce(_, _, _)
SeedReduce(codes, i, acc) ==
    IF i >= Len(codes) THEN acc
    ELSE SeedReduce(codes, i + 1, (acc + codes[i + 1] * (i + 17)) % SeedModulus)

\* computeSeed(fid, salt) for a number fid and a number salt: the decimal digits
\* (hash.toString()) of the reduced sum over `${fid}-${salt}`
computeSeed(fid, salt) ==
    DecimalCodes(SeedReduce(DecimalCodes(fid) \o CharCodes("-") \o DecimalCodes(salt), 0, 0))

\* getClinkerPhase; the score is held in tenths, an argument left out is Absent
getClinkerPhase(neynarScore, accountAgeDays, followersCount) ==
    LET orZero(v) == IF v = Absent THEN 0 ELSE v
        score10 == 10 * orZero(neynarScore) + 5 * orZero(accountAgeDays)
                   + orZero(followersCount)
    IN  IF score10 < 500 THEN "baby"
        ELSE IF score10 < 2000 THEN "youngin"
        ELSE IF score10 < 6000 THEN "risingStar"
        ELSE "og"

phaseColors(phase) ==
    CASE phase = "baby" -> [glow |-> "#C8A2FF", eyes |-> "#E2C2FF", stone |-> "#EDE6FF"]
      [] phase = "youngin" -> [glow |-> "#A875FF", eyes |-> "#D19BFF", stone |-> "#D6C2FF"]
      [] phase = "risingStar" -> [glow |-> "#8A47FF", eyes |-> "#C174FF", stone |-> "#BFA6FF"]
      [] phase = "og" -> [glow |-> "#6B00FF", eyes |-> "#AA2EFF", stone |-> "#A689FF"]
      [] OTHER -> [glow |-> "#C8A2FF", eyes |-> "#E2C2FF", stone |-> "#EDE6FF"]

\* an options field that was not passed
NoPrompt == <<>>

\* generateClinkerImage(options) up to the call of the image model (lines 101-154):
\* the text part of the request, the picture that is attached, and the seedHash
\* that goes into the result's metadata.  The built-in prompt is held as the
\* values interpolated into it.
generateClinkerImage(options) ==
    LET phase == getClinkerPhase(options.neynarScore, options.accountAgeDays,
                                 options.followersCount)
        seedHash == computeSeed(options.fid, options.seedSalt)
    IN  [text |-> IF options.customPrompt # NoPrompt
                  THEN options.customPrompt
                  ELSE <<phase, phaseColors(phase), seedHash>>,
         pfp |-> options.pfpUrl,
         seedHash |-> seedHash]

\* the component generates up to MaxRegens times
MaxRegens == 2

\* who the FIDs are: handle and follower count
RegenIdentities ==
    {[fid |-> FarcasterFid, username |-> "dwr", follower_count |-> 1500],
     [fid |-> TEST_FID, username |-> "ayojoseph", follower_count |-> 6000]}

\* what fetchUserByFid can return for the FID: the display name, the score and the
\* picture are whatever the profile holds at the time of the fetch
RegenProfiles(fid) ==
    {[fid |-> id.fid, username |-> id.username, follower_count |-> id.follower_count,
      display_name |-> dn, score |-> sc, experimental |-> Absent, pfp_url |-> url] :
        id \in {i \in RegenIdentities : i.fid = fid},
        dn \in {"Dan", "Ayo"}, sc \in {50, 95}, url \in {"", "https://pfp"}}

InitRegen ==
    /\ regenFid \in {id.fid : id \in RegenIdentities}
    /\ regenSalt = 0
    /\ regenRuns = <<>>

\* handleGenerateClinker from the profile fetch to the call of the image model
RegenerateClinker ==
    /\ regenSalt < MaxRegens
    /\ \E u \in RegenProfiles(regenFid) :
         LET personalityPrompt == generateClinkerPromptSeeded(u)
             nextSeedSalt == regenSalt + 1
             request == generateClinkerImage(
                            [customPrompt |-> personalityPrompt.prompt,
                             seedSalt |-> nextSeedSalt, pfpUrl |-> u.pfp_url,
                             fid |-> u.fid, neynarScore |-> Absent,
                             accountAgeDays |-> Absent, followersCount |-> Absent])
         IN  /\ regenSalt' = nextSeedSalt
             /\ regenRuns' = Append(regenRuns,
                    [user |-> u, seedSalt |-> nextSeedSalt,
                     phase |-> personalityPrompt.phase,
                     indexes |-> personalityPrompt.indexes,
                     traits |-> personalityPrompt.traits,
                     palette |-> personalityPrompt.palette,
                     request |-> request])
    /\ UNCHANGED regenFid
    /\ UNCHANGED <<cvars, pvars, avars, uvars, gvars, fvars>>

RegenStart ==
    /\ InitRegen /\ ContractIdle /\ PhaseIdle /\ AccessoriesIdle /\ ComponentIdle
    /\ PromptIdle /\ FunctionsIdle

NextRegen == RegenerateClinker

SpecRegen == RegenStart /\ [][NextRegen]_vars

Range(seq) == {seq[i] : i \in 1..Len(seq)}

\* C11: every categorical trait (surface pattern, unique feature, expression, body
\* proportion, eye shape, aura) is picked with an index in 0..length(pool)-1 and is
\* an element of its pool.
C11_TraitsInPools ==
    \A i \in 1..Len(regenRuns) : \A k \in TraitKeys :
        /\ regenRuns[i].indexes[k] \in 0..(Len(TraitPools[k]) - 1)
        /\ regenRuns[i].traits[k] \in Range(TraitPools[k])

\* C14: for the same profile, the generation made with salt s+1 hands the image
\* model a request whose text differs from that of the generation made with salt s.
C14_SaltReachesRequest ==
    \A i \in 1..(Len(regenRuns) - 1) :
        (/\ regenRuns[i].user = regenRuns[i + 1].user
         /\ regenRuns[i + 1].seedSalt = regenRuns[i].seedSalt + 1)
            => regenRuns[i + 1].request.text # regenRuns[i].request.text

\* the tier, the palette and the categorical traits derived in a generation
DerivedTraits(run) == <<run.phase, run.palette, run.traits>>

-----------------------------------------------------------------------------
(* hashString applied to a string *)

\* strings have up to MaxHashLen UTF-16 code units
MaxHashLen == 3

\* the code units the strings are made of: NUL, '-', 'a', U+00FF, U+8000, U+FFFF
HashCodeUnits == {0, 45, 97, 255, 32768, 65535}

HashInputs == UNION {[1..n -> HashCodeUnits] : n \in 0..MaxHashLen}

InitHash ==
    /\ hashInput \in HashInputs
    /\ hashOutput = <<>>

ApplyHashString ==
    /\ hashOutput = <<>>
    /\ hashOutput' = <<hashString(hashInput)>>
    /\ UNCHANGED <<hashInput, seedArgs, seedHashes, hslArgs, hslOutput>>
    /\ UNCHANGED <<paletteArgs, paletteOut, verifyArgs, verifyResult>>
    /\ UNCHANGED <<cvars, pvars, avars, uvars, gvars, rvars>>

HashStart ==
    /\ InitHash
    /\ seedArgs = [fid |-> 0, salts |-> <<0, 0>>] /\ seedHashes = <<>>
    /\ hslArgs = [s |-> 0, l |-> 0] /\ hslOutput = <<>>
    /\ PaletteIdle /\ VerifyIdle
    /\ ContractIdle /\ PhaseIdle /\ AccessoriesIdle /\ ComponentIdle
    /\ PromptIdle /\ RegenIdle

NextHash == ApplyHashString

SpecHash == HashStart /\ [][NextHash]_vars

\* the reference: 32-bit FNV-1a.  16777619 = 256 * 2^16 + 403, so on the halves
\* (hi * 2^16 + lo) * 16777619 mod 2^32 has the low half lo * 403 mod 2^16 and the
\* high half hi * 403 + lo * 256 + carry mod 2^16
FnvPrimeTimes(h) ==
    LET low == h.lo * 403
    IN  [hi |-> (h.hi * 403 + h.lo * 256 + low \div TwoTo16) % TwoTo16,
         lo |-> low % TwoTo16]

RECURSIVE Fnv1a(_, _)
Fnv1a(h, codes) ==
    IF codes = <<>> THEN h
    ELSE Fnv1a(FnvPrimeTimes([hi |-> h.hi, lo |-> XorBits(h.lo, Head(codes), 16)]),
               Tail(codes))

\* C12: hashString returns the 32-bit FNV-1a hash of the char codes of its argument
\* (offset basis 2166136261, each code XORed in and the result multiplied by
\* 16777619 modulo 2^32), a value in 0 .. 2^32 - 1.
C12_HashIsFnv1a ==
    hashOutput # <<>> =>
        /\ hashOutput[1] = Fnv1a([hi |-> 33052, lo |-> 40389], hashInput)
        /\ hashOutput[1].hi \in 0..(TwoTo16 - 1)
        /\ hashOutput[1].lo \in 0..(TwoTo16 - 1)

\* a string of two or more code units, one of them above 255, was hashed to a
\* value of 2^31 or more
C12_Witness ==
    /\ hashOutput # <<>>
    /\ Len(hashInput) >= 2
    /\ \E i \in 1..Len(hashInput) : hashInput[i] > 255
    /\ hashOutput[1].hi >= 32768

-----------------------------------------------------------------------------
(* computeSeed applied to one FID and two salts *)

\* salts are 0..MaxSalt
MaxSalt == 201

SeedFids == {FarcasterFid, TEST_FID}

InitSeed ==
    /\ seedArgs \in {[fid |-> f, salts |-> <<s1, s2>>] :
                        f \in SeedFids, s1 \in 0..MaxSalt, s2 \in 0..MaxSalt}
    /\ seedHashes = <<>>

ComputeSeeds ==
    /\ seedHashes = <<>>
    /\ seedHashes' = <<computeSeed(seedArgs.fid, seedArgs.salts[1]),
                       computeSeed(seedArgs.fid, seedArgs.salts[2])>>
    /\ UNCHANGED <<hashInput, hashOutput, seedArgs, hslArgs, hslOutput>>
    /\ UNCHANGED <<paletteArgs, paletteOut, verifyArgs, verifyResult>>
    /\ UNCHANGED <<cvars, pvars, avars, uvars, gvars, rvars>>

SeedStart ==
    /\ InitSeed
    /\ hashInput = <<>> /\ hashOutput = <<>>
    /\ hslArgs = [s |-> 0, l |-> 0] /\ hslOutput = <<>>
    /\ PaletteIdle /\ VerifyIdle
    /\ ContractIdle /\ PhaseIdle /\ AccessoriesIdle /\ ComponentIdle
    /\ PromptIdle /\ RegenIdle

NextSeed == ComputeSeeds

SpecSeed == SeedStart /\ [][NextSeed]_vars

\* C13 as claimed: for the same FID any two different salts give different seeds.
C13_AsClaimed ==
    (seedHashes # <<>> /\ seedArgs.salts[1] # seedArgs.salts[2])
        => seedHashes[1] # seedHashes[2]

\* C13: for the same FID, two different salts below 120 give different seeds, and
\* so do a salt and its successor.
C13_SmallOrConsecutiveSaltsDiffer ==
    LET s1 == seedArgs.salts[1]
        s2 == seedArgs.salts[2]
    IN  (/\ seedHashes # <<>>
         /\ s1 # s2
         /\ \/ (s1 < 120 /\ s2 < 120)
            \/ s2 = s1 + 1
            \/ s1 = s2 + 1)
            => seedHashes[1] # seedHashes[2]

\* the seeds of salts 21 and 102 (the same digits in other positions) were computed
C13_Witness ==
    /\ seedHashes # <<>>
    /\ seedArgs.salts = <<21, 102>>
    /\ seedHashes[1] # seedHashes[2]

-----------------------------------------------------------------------------
(* hslToHex applied to the hues 0, 120 and 240 at one saturation and lightness *)

\* saturation and lightness are percentages (clamp(s, 0, 100))
MaxPercent == 100

InitHsl ==
    /\ hslArgs \in [s : 0..MaxPercent, l : 0..MaxPercent]
    /\ hslOutput = <<>>

\* the three conversions; the same double product rounds the same way in each
ConvertHues ==
    /\ hslOutput = <<>>
    /\ \E short \in [c : BOOLEAN, x : BOOLEAN, zero : BOOLEAN] :
         hslOutput' =
             [i \in 1..3 |->
                 LET rgb == hslChannels(120 * (i - 1), hslArgs.s, hslArgs.l, short)
                 IN  [hex |-> HexOfChannels(rgb), channels |-> rgb]]
    /\ UNCHANGED <<hashInput, hashOutput, seedArgs, seedHashes, hslArgs>>
    /\ UNCHANGED <<paletteArgs, paletteOut, verifyArgs, verifyResult>>
    /\ UNCHANGED <<cvars, pvars, avars, uvars, gvars, rvars>>

HslStart ==
    /\ InitHsl
    /\ hashInput = <<>> /\ hashOutput = <<>>
    /\ seedArgs = [fid |-> 0, salts |-> <<0, 0>>] /\ seedHashes = <<>>
    /\ PaletteIdle /\ VerifyIdle
    /\ ContractIdle /\ PhaseIdle /\ AccessoriesIdle /\ ComponentIdle
    /\ PromptIdle /\ RegenIdle

NextHsl == ConvertHues

SpecHsl == HslStart /\ [][NextHsl]_vars

\* the number of channels in which two colours differ
ChannelsApart(a, b) == Cardinality({k \in 1..3 : a.channels[k] # b.channels[k]})

HuesApart ==
    \A i, j \in 1..3 :
        i # j => /\ hslOutput[i].hex # hslOutput[j].hex
                 /\ ChannelsApart(hslOutput[i], hslOutput[j]) > 1

\* C16 as claimed: at any saturation and lightness in 0..100 the hues 0, 120 and 240
\* give three mutually distinct hex strings, any two differing in more than one
\* channel.
C16_AsClaimed == hslOutput # <<>> => HuesApart

\* C16: at a saturation of 8 or more and a lightness in 1..99 the hues 0, 120 and
\* 240 give three mutually distinct hex strings, any two differing in more than one
\* channel.
C16_HuesApartWhenColourful ==
    (hslOutput # <<>> /\ hslArgs.s >= 8 /\ hslArgs.l \in 1..99) => HuesApart

\* the conversion at saturation 8 and lightness 99, the faintest colour covered
C16_Witness ==
    /\ hslOutput # <<>>
    /\ hslArgs = [s |-> 8, l |-> 99]
    /\ HuesApart

-----------------------------------------------------------------------------
(* The mint the Carplets front end sends *)

\* parseEther(feeEth) for the feeEth: "0" that CarpletGeneratorComponent passes to
\* mintCarplet
CarpletsFeeEth == 0

\* C20: with the Carplets contract in its initial state (no setMintFee call made), a
\* mint of a non-zero, not yet minted FID sent with zero value, as the front end
\* sends it, succeeds.
C20_FreeMintSucceeds ==
    [][ (/\ kind = "Carplets"
         /\ mintFee = CarpletsInitialMintFee
         /\ totalSupply = 0
         /\ ~metadataFrozen
         /\ lastCall'.fn = "mint"
         /\ lastCall'.value = CarpletsFeeEth
         /\ lastCall'.fid # 0
         /\ ~fidMinted[lastCall'.fid])
            => lastCall'.err = "ok" ]_vars

-----------------------------------------------------------------------------
(* The colour palette of generateClinkerPrompt (part_003 lines 127-166), applied *)
(* to seed triples and tiers drawn at the start                                  *)

\* the seeds are hi * 2^16 + lo: lo runs over every residue modulo 120 and over
\* 120 base hues, the second high half (32824, a seed above 2^31) moves the base
\* hues to 304..359, 0..63, so that hues wrap around 360 and base hues repeat
MaxSeedLo == 119
PaletteSeedHis == {0, 32824}
PaletteSeeds == {[hi |-> h, lo |-> l] : h \in PaletteSeedHis, l \in 0..MaxSeedLo}

\* seed2 reaches the palette through seed2 % 60 and seed3 through seed3 % 40
MaxSeed2Lo == 59
PaletteSeed2s == {[hi |-> 0, lo |-> l] : l \in 0..MaxSeed2Lo}
PaletteSeed3s == {[hi |-> 0, lo |-> l] : l \in {0, 13, 39, 40}}

InitPalette ==
    /\ paletteArgs \in [seed : PaletteSeeds, seed2 : PaletteSeed2s,
                         seed3 : PaletteSeed3s, phase : 1..4]
    /\ paletteOut = <<>>

\* lines 127-166: the hues of the three colours and the indexes into the pools
ComputePalette ==
    /\ paletteOut = <<>>
    /\ paletteOut' =
           <<[hues |-> PaletteHues(paletteArgs.seed, paletteArgs.seed2,
                                   paletteArgs.seed3, paletteArgs.phase),
              indexes |-> TraitIndexes(paletteArgs.seed, paletteArgs.seed2,
                                       paletteArgs.seed3)]>>
    /\ UNCHANGED <<hashInput, hashOutput, seedArgs, seedHashes, hslArgs, hslOutput>>
    /\ UNCHANGED <<paletteArgs, verifyArgs, verifyResult>>
    /\ UNCHANGED <<cvars, pvars, avars, uvars, gvars, rvars>>

PaletteStart ==
    /\ InitPalette
    /\ hashInput = <<>> /\ hashOutput = <<>>
    /\ seedArgs = [fid |-> 0, salts |-> <<0, 0>>] /\ seedHashes = <<>>
    /\ hslArgs = [s |-> 0, l |-> 0] /\ hslOutput = <<>>
    /\ VerifyIdle
    /\ ContractIdle /\ PhaseIdle /\ AccessoriesIdle /\ ComponentIdle
    /\ PromptIdle /\ RegenIdle

NextPalette == ComputePalette

SpecPalette == PaletteStart /\ [][NextPalette]_vars

\* the distance of two hues on the 0..359 wheel
CircularDistance(a, b) ==
    LET d == AbsInt(a - b) IN IF d > 180 THEN 360 - d ELSE d

\* C22 as claimed: the stone hue is at least 30 degrees and the accent hue at least
\* 120 degrees away from the eye hue, for every seed triple and every tier.
C22_AsClaimed ==
    paletteOut # <<>> =>
        LET h == paletteOut[1].hues IN
        /\ CircularDistance(h.stoneHue, h.eyeHue) >= 30
        /\ CircularDistance(h.accentHue, h.eyeHue) >= 120

\* C22: measured from the base hue (seed % 360) the stone hue is at least 45 and
\* the accent hue at least 120 degrees away; the eye hue itself is the base hue
\* moved by -30..29 degrees, so from the eye hue the stone hue is at least 16 and
\* the accent hue at least 91 degrees away, for every seed triple and every tier.
C22_HueSeparation ==
    paletteOut # <<>> =>
        LET h == paletteOut[1].hues IN
        /\ CircularDistance(h.stoneHue, h.baseHue) >= 45
        /\ CircularDistance(h.accentHue, h.baseHue) >= 120
        /\ CircularDistance(h.eyeHue, h.baseHue) <= 30
        /\ CircularDistance(h.stoneHue, h.eyeHue) >= 16
        /\ CircularDistance(h.accentHue, h.eyeHue) >= 91

\* C22 witness: a tier-1 palette above 2^31 whose stone hue is 16 and whose accent
\* hue is 91 degrees from the eye hue
C22_Witness ==
    /\ paletteOut # <<>>
    /\ paletteArgs.phase = 1
    /\ paletteArgs.seed.hi = 32824
    /\ CircularDistance(paletteOut[1].hues.stoneHue, paletteOut[1].hues.eyeHue) = 16
    /\ CircularDistance(paletteOut[1].hues.accentHue, paletteOut[1].hues.eyeHue) = 91

\* C23: the surface texture is not determined by the base hue: beside the seed of
\* the call there is a seed with the same base hue (seed mod 360) and another
\* surface-pattern index.
C23_TextureNotDeterminedByHue ==
    paletteOut # <<>> =>
        \E other \in PaletteSeeds :
            /\ PaletteHues(other, paletteArgs.seed2, paletteArgs.seed3,
                           paletteArgs.phase).baseHue = paletteOut[1].hues.baseHue
            /\ TraitIndexes(other, paletteArgs.seed2, paletteArgs.seed3).surfacePattern
                   # paletteOut[1].indexes.surfacePattern

-----------------------------------------------------------------------------
(* fetchUserByFid and verifyFidOwnership (part_003 lines 302-355)             *)

\* String.prototype.toLowerCase on the char codes of an address
ToLowerCode(c) == IF c \in 65..90 THEN c + 32 ELSE c

RECURSIVE toLowerCase(_)
toLowerCase(codes) ==
    IF codes = <<>> THEN <<>>
    ELSE <<ToLowerCode(Head(codes))>> \o toLowerCase(Tail(codes))

\* addresses as char codes: "0xAb", "0xab", "0xAB", "0xCd", "0xcd"
VerifyAddresses ==
    {<<48, 120, 65, 98>>, <<48, 120, 97, 98>>, <<48, 120, 65, 66>>,
     <<48, 120, 67, 100>>, <<48, 120, 99, 100>>}

\* an optional field is <<>> when it is undefined; custody_address is a string, and
\* the empty string (also <<>> as char codes) is as falsy as undefined
MaxVerified == 2
EthAddressLists ==
    UNION {[1..n -> VerifyAddresses] : n \in 0..MaxVerified}

NeynarUsers ==
    [custody_address : {<<>>} \cup VerifyAddresses,
     eth_addresses : {<<>>} \cup {<<l>> : l \in EthAddressLists}]

\* what the request of fetchUserByFid comes back with: fetch or res.json() throws,
\* a status that is not ok, a body without users, or a body with the user
NeynarResponses ==
    {[kind |-> "throws"], [kind |-> "httpError"], [kind |-> "empty"]}
        \cup {[kind |-> "user", user |-> u] : u \in NeynarUsers}

\* the try block of fetchUserByFid: <<>> is null, <<user>> the user
FetchTry(response) ==
    CASE response.kind = "throws" -> [kind |-> "throws"]
      [] response.kind = "httpError" -> [kind |-> "returns", value |-> <<>>]
      [] response.kind = "empty" -> [kind |-> "returns", value |-> <<>>]
      [] response.kind = "user" -> [kind |-> "returns", value |-> <<response.user>>]

\* fetchUserByFid: the catch block returns null
fetchUserByFid(fid, response) ==
    LET r == FetchTry(response)
    IN  IF r.kind = "throws" THEN [kind |-> "returns", value |-> <<>>] ELSE r

\* eth_addresses.some((addr) => addr.toLowerCase() === normalizedWalletAddress)
RECURSIVE Some(_, _)
Some(addrs, normalized) ==
    IF addrs = <<>> THEN FALSE
    ELSE IF toLowerCase(Head(addrs)) = normalized THEN TRUE
    ELSE Some(Tail(addrs), normalized)

\* the try block with the comparisons made on the strings as they are
VerifyTry_CaseSensitive(fid, walletAddress, response) ==
    LET fetched == fetchUserByFid(fid, response) IN
    IF fetched.kind = "throws" THEN fetched
    ELSE IF fetched.value = <<>> THEN [kind |-> "returns", value |-> FALSE]
    ELSE LET usr == fetched.value[1] IN
         IF usr.custody_address # <<>> /\ usr.custody_address = walletAddress
         THEN [kind |-> "returns", value |-> TRUE]
         ELSE IF usr.eth_addresses # <<>>
         THEN [kind |-> "returns",
               value |-> \E i \in 1..Len(usr.eth_addresses[1]) :
                            usr.eth_addresses[1][i] = walletAddress]
         ELSE [kind |-> "returns", value |-> FALSE]

\* the try block of verifyFidOwnership, lines 324-350
VerifyTry(fid, walletAddress, response) ==
    LET fetched == fetchUserByFid(fid, response) IN
    IF fetched.kind = "throws" THEN fetched
    ELSE IF fetched.value = <<>> THEN [kind |-> "returns", value |-> FALSE]
    ELSE LET usr == fetched.value[1]
             normalizedWalletAddress == toLowerCase(walletAddress)
         IN  IF /\ usr.custody_address # <<>>
                /\ toLowerCase(usr.custody_address) = normalizedWalletAddress
             THEN [kind |-> "returns", value |-> TRUE]
             ELSE IF usr.eth_addresses # <<>>
             THEN [kind |-> "returns",
                   value |-> Some(usr.eth_addresses[1], normalizedWalletAddress)]
             ELSE [kind |-> "returns", value |-> FALSE]

\* verifyFidOwnership: the catch block returns false
verifyFidOwnership(fid, walletAddress, response) ==
    LET r == VerifyTry(fid, walletAddress, response)
    IN  IF r.kind = "throws" THEN [kind |-> "returns", value |-> FALSE] ELSE r

InitVerify ==
    /\ verifyArgs \in [fid : {FarcasterFid}, wallet : VerifyAddresses,
                        response : NeynarResponses]
    /\ verifyResult = <<>>

VerifyFidOwnership ==
    /\ verifyResult = <<>>
    /\ verifyResult' =
           <<verifyFidOwnership(verifyArgs.fid, verifyArgs.wallet, verifyArgs.response)>>
    /\ UNCHANGED <<hashInput, hashOutput, seedArgs, seedHashes, hslArgs, hslOutput>>
    /\ UNCHANGED <<paletteArgs, paletteOut, verifyArgs>>
    /\ UNCHANGED <<cvars, pvars, avars, uvars, gvars, rvars>>

VerifyStart ==
    /\ InitVerify
    /\ hashInput = <<>> /\ hashOutput = <<>>
    /\ seedArgs = [fid |-> 0, salts |-> <<0, 0>>] /\ seedHashes = <<>>
    /\ hslArgs = [s |-> 0, l |-> 0] /\ hslOutput = <<>>
    /\ PaletteIdle
    /\ ContractIdle /\ PhaseIdle /\ AccessoriesIdle /\ ComponentIdle
    /\ PromptIdle /\ RegenIdle

NextVerify == VerifyFidOwnership

SpecVerify == VerifyStart /\ [][NextVerify]_vars

\* two addresses are equal when letter case is ignored
SameIgnoringCase(a, b) ==
    /\ Len(a) = Len(b)
    /\ \A i \in 1..Len(a) :
          \/ a[i] = b[i]
          \/ a[i] \in 65..90 /\ b[i] = a[i] + 32
          \/ b[i] \in 65..90 /\ a[i] = b[i] + 32

\* the wallet is the custody address or a verified address of the fetched profile
WalletOfProfile(wallet, response) ==
    /\ response.kind = "user"
    /\ \/ SameIgnoringCase(wallet, response.user.custody_address)
       \/ /\ response.user.eth_addresses # <<>>
          /\ \E i \in 1..Len(response.user.eth_addresses[1]) :
                SameIgnoringCase(wallet, response.user.eth_addresses[1][i])

\* C24: verifyFidOwnership(fid, wallet) returns true exactly when a profile is
\* fetched for the FID and the wallet equals, ignoring letter case, the profile's
\* custody address or one of its verified addresses; when the profile cannot be
\* fetched (HTTP error, empty result, exception) it returns false; it never throws.
C24_OwnershipCheck ==
    verifyResult # <<>> =>
        /\ verifyResult[1].kind = "returns"
        /\ verifyResult[1].value = WalletOfProfile(verifyArgs.wallet, verifyArgs.response)
        /\ verifyArgs.response.kind # "user" => verifyResult[1].value = FALSE

\* C24 witness: true for a wallet that is the second verified address in another
\* letter case, the custody address being a different one
C24_Witness ==
    /\ verifyResult = <<[kind |-> "returns", value |-> TRUE]>>
    /\ verifyArgs.wallet = <<48, 120, 65, 66>>
    /\ verifyArgs.response.kind = "user"
    /\ verifyArgs.response.user.custody_address = <<48, 120, 99, 100>>
    /\ verifyArgs.response.user.eth_addresses
          = <<(<<(<<48, 120, 67, 100>>), (<<48, 120, 97, 98>>)>>)>>

====
